---------------------------- MODULE Spec2Model ----------------------------
(***************************************************************************)
(* A model of maf_stream: the MAF parser and serializer of the             *)
(* multiple_alignment_format crate, and the block algorithms built on it   *)
(* (coverage, duplicate merging), with the driver loops that feed them.    *)
(*                                                                         *)
(* Text is modelled at character level: a line is a sequence of            *)
(* one-character strings, so that split_whitespace, starts_with, split('='),*)
(* str::parse::<u64> and the formatting done by Display are computed, not   *)
(* assumed.                                                                 *)
(***************************************************************************)
EXTENDS Integers, Sequences, FiniteSets, TLC

VARIABLES
    input,      \* the lines of the input stream not yet read
    consumed,   \* the lines read by the last call of next_maf_item
    result,     \* what the last call of next_maf_item returned
    rendered,   \* Some(the lines written by Display of the last block), or None
    counts,     \* the species tally handed to a base call
    tie,        \* the block tally handed to a base call
    called,     \* the base call made: "none", "unanimous_base", "consensus_base"
    base,       \* the base the call returned
    merge_block,  \* the block handed to the merge
    merge_mode,   \* the ConsensusMode of the merge
    merge_out,    \* Some(the block the merge wrote, or its panic), or None
    maf_coverage, \* the MAFCoverage
    cov_call,     \* the last add_block: its block, the coverage map before
                  \* it, and what it did
    cov_calls,    \* the number of add_block calls made
    cov_returned, \* whether the last add_block has just returned
    build_overflow_checks, \* whether the build panics on u64 overflow
    driver,       \* the driver that runs: name, status, output, state
    drv_last,     \* what the driver's last call of next_maf_item returned
    fil_block,    \* the block handed to the column filter
    fil_ranges,   \* the BTreeSet<Range> handed to a call
    fil_call      \* the last call made on them: its name, arguments and result

parser_vars == <<input, consumed, result, rendered>>
tally_vars == <<counts, tie, called, base>>
merge_vars == <<merge_block, merge_mode, merge_out>>
cov_vars == <<maf_coverage, cov_call, cov_calls, cov_returned, build_overflow_checks>>
drv_vars == <<driver, drv_last>>
fil_vars == <<fil_block, fil_ranges, fil_call>>
vars == <<parser_vars, tally_vars, merge_vars, cov_vars, drv_vars, fil_vars>>

(***************************************************************************)
(* Bounds of the model.                                                    *)
(***************************************************************************)
\* Longest input stream, in lines.
MaxLines == 4
\* Most body lines of a block text of the round-trip specification.
MaxBody == 3
\* Largest count of one letter in a tally.
MaxCount == 2
\* Most entries of a block handed to the merge.
MaxEntries == 4
\* Most columns of an alignment handed to the column filter.
MaxColumns == 4
\* Most ranges of a set handed to the column filter or to a range lookup.
MaxRanges == 2
\* Most entries of a block handed to filter_block.
MaxFilEntries == 3
\* Most entries a block holds before the s line handed to update_from_s_line.
MaxSoFar == 1
\* max_length of split_maf.
SplitMaxLength == 3
\* Most blocks of a stream given to split_maf block by block.
MaxSplitBlocks == 3
\* Most entries of a block added to the coverage.
MaxCovEntries == 3
\* Most blocks added to the coverage.
MaxCovBlocks == 2
\* Width, in bits, of the model's stand-in for u64.
U64Bits == 6

RECURSIVE Pow2(_)
Pow2(n) == IF n = 0 THEN 1 ELSE 2 * Pow2(n - 1)

\* u64::MAX of the model.
U64Max == Pow2(U64Bits) - 1

(***************************************************************************)
(* Characters and strings.                                                 *)
(***************************************************************************)
Digits == <<"0", "1", "2", "3", "4", "5", "6", "7", "8", "9">>

IsDigit(c) == \E i \in 1..10 : Digits[i] = c

DigitVal(c) == (CHOOSE i \in 1..10 : Digits[i] = c) - 1

\* char::is_whitespace, on the characters of the model.
WhitespaceChars == {" ", "\t", "\r"}

IsWhitespace(c) == c \in WhitespaceChars

\* The characters whose order matters (keys of a BTreeMap), in byte order.
CharOrder == <<"#", "+", "-", ".", "0", "1", "2", "3", "4", "5", "6", "7", "8",
               "9", "=", "A", "B", "C", "G", "I", "M", "N", "T", "a", "b", "c", "d",
               "e", "g", "i", "j", "k", "m", "n", "q", "s", "t", "v", "w", "x">>

CharCode(c) == CHOOSE i \in 1..Len(CharOrder) : CharOrder[i] = c

\* str's Ord: lexicographic on bytes, a proper prefix first.
RECURSIVE StrLess(_, _)
StrLess(a, b) ==
    IF Len(b) = 0 THEN FALSE
    ELSE IF Len(a) = 0 THEN TRUE
    ELSE IF a[1] = b[1] THEN StrLess(Tail(a), Tail(b))
    ELSE CharCode(a[1]) < CharCode(b[1])

\* str::split(sep): every piece between separators, empty pieces kept.
RECURSIVE SplitOn(_, _)
SplitOn(s, seps) ==
    IF \A i \in 1..Len(s) : s[i] \notin seps THEN <<s>>
    ELSE LET i == CHOOSE k \in 1..Len(s) :
                     s[k] \in seps /\ \A j \in 1..(k - 1) : s[j] \notin seps
         IN  <<SubSeq(s, 1, i - 1)>> \o SplitOn(SubSeq(s, i + 1, Len(s)), seps)

NonEmpty(t) == Len(t) > 0

\* str::split_whitespace: the maximal runs of non-whitespace characters.
split_whitespace(line) == SelectSeq(SplitOn(line, WhitespaceChars), NonEmpty)

\* line.trim().is_empty()
TrimIsEmpty(line) == \A i \in 1..Len(line) : IsWhitespace(line[i])

\* Option<T>: None is <<>>, Some(x) is <<x>>.
None == <<>>
Some(x) == <<x>>

RECURSIVE DecVal(_)
DecVal(ds) ==
    IF Len(ds) = 0 THEN 0
    ELSE 10 * DecVal(SubSeq(ds, 1, Len(ds) - 1)) + DigitVal(ds[Len(ds)])

\* str::parse::<u64>: an optional '+', then one or more digits, no overflow.
\* None stands for Err(ParseIntError).
ParseU64(tok) ==
    LET ds == IF Len(tok) > 0 /\ tok[1] = "+" THEN Tail(tok) ELSE tok
    IN  IF Len(ds) = 0 \/ (\E i \in 1..Len(ds) : ~IsDigit(ds[i])) THEN None
        ELSE IF DecVal(ds) > U64Max THEN None
        ELSE Some(DecVal(ds))

\* Display for u64: the decimal digits, no sign, no leading zero.
RECURSIVE FmtU64(_)
FmtU64(n) ==
    IF n < 10 THEN <<Digits[n + 1]>>
    ELSE FmtU64(n \div 10) \o <<Digits[(n % 10) + 1]>>

(***************************************************************************)
(* MAFParseError (parser.rs:39-47).  arg is the String of the variant, or  *)
(* the one-element sequence holding the message of Misc.                   *)
(***************************************************************************)
ErrEOF == [kind |-> "EOF", arg |-> <<>>]
ErrIO == [kind |-> "IOError", arg |-> <<>>]
ErrBadMetadata == [kind |-> "BadMetadata", arg |-> <<>>]
ErrUnexpectedLine(s) == [kind |-> "UnexpectedLine", arg |-> s]
ErrBadLineType(s) == [kind |-> "BadLineType", arg |-> s]
ErrMisc(msg) == [kind |-> "Misc", arg |-> <<msg>>]

\* Result<T, MAFParseError>.
Ok(v) == [ok |-> TRUE, panic |-> FALSE, val |-> v]
Err(e) == [ok |-> FALSE, panic |-> FALSE, err |-> e]


\* A call that aborted the process (a Rust panic): not a value the caller sees.
Panic(msg) == [ok |-> FALSE, panic |-> TRUE, err |-> msg]

IsErr(r) == ~r.ok /\ ~r.panic

(***************************************************************************)
(* The input stream (parser.rs:14-37).  A stream is a sequence of raw      *)
(* lines, each the characters before its '\n'; IOFailure stands for a read *)
(* that returns Err.                                                       *)
(***************************************************************************)
IOFailure == <<"EIO">>

\* LinesRef::next on a raw line: the '\n' is dropped, then one '\r'.
LinesRefNext(raw) ==
    IF Len(raw) > 0 /\ raw[Len(raw)] = "\r" THEN SubSeq(raw, 1, Len(raw) - 1)
    ELSE raw

(***************************************************************************)
(* Block metadata: a BTreeMap<String, String>, kept as the sequence of its *)
(* (key, value) pairs in ascending key order.                              *)
(***************************************************************************)
RECURSIVE BTreeInsert(_, _, _)
BTreeInsert(m, k, v) ==
    IF Len(m) = 0 THEN <<[key |-> k, value |-> v]>>
    ELSE IF m[1].key = k THEN <<[key |-> k, value |-> v]>> \o Tail(m)
    ELSE IF StrLess(k, m[1].key) THEN <<[key |-> k, value |-> v]>> \o m
    ELSE <<m[1]>> \o BTreeInsert(Tail(m), k, v)

split_metadata_pairs(pair) ==
    LET parts == SplitOn(pair, {"="})
    IN  IF Len(parts) < 2 THEN Err(ErrBadMetadata)
        ELSE Ok([key |-> parts[1], value |-> parts[2]])

RECURSIVE CollectMetadata(_, _)
CollectMetadata(toks, m) ==
    IF Len(toks) = 0 THEN Ok(m)
    ELSE LET p == split_metadata_pairs(Head(toks))
         IN  IF ~p.ok THEN p
             ELSE CollectMetadata(Tail(toks), BTreeInsert(m, p.val.key, p.val.value))

metadata_from_header(header) ==
    LET toks == split_whitespace(header)
    IN  CollectMetadata(IF Len(toks) = 0 THEN <<>> ELSE Tail(toks), <<>>)

(***************************************************************************)
(* Body lines (parser.rs:96-219).  fields holds every token of the line,   *)
(* the line kind first; the code pops the fields from the back.            *)
(***************************************************************************)
\* The k-th fields.pop(): None once the vector is empty.
PopField(fields, k) ==
    IF Len(fields) >= k THEN Some(fields[Len(fields) - k + 1]) ELSE None

parse_strand(tok) ==
    IF tok = <<"+">> THEN Ok("Positive")
    ELSE IF tok = <<"-">> THEN Ok("Negative")
    ELSE Err(ErrMisc("Strand not valid"))

\* fields.pop().ok_or(incomplete).and_then(parse::<u64> or invalid)
PopU64(fields, k, incomplete, invalid) ==
    LET f == PopField(fields, k)
    IN  IF f = None THEN Err(ErrMisc(incomplete))
        ELSE IF ParseU64(f[1]) = None THEN Err(ErrMisc(invalid))
        ELSE Ok(ParseU64(f[1])[1])

PopStrand(fields, k, incomplete) ==
    LET f == PopField(fields, k)
    IN  IF f = None THEN Err(ErrMisc(incomplete)) ELSE parse_strand(f[1])

PopStr(fields, k, incomplete) ==
    LET f == PopField(fields, k)
    IN  IF f = None THEN Err(ErrMisc(incomplete)) ELSE Ok(f[1])

AlignedEntry(seq, start, aligned_length, strand, sequence_size, alignment, context) ==
    [kind |-> "Aligned", seq |-> seq, start |-> start,
     aligned_length |-> aligned_length, strand |-> strand,
     sequence_size |-> sequence_size, alignment |-> alignment,
     context |-> context, qualities |-> None]

UnalignedEntry(seq, start, size, strand, sequence_size, status) ==
    [kind |-> "Unaligned", seq |-> seq, start |-> start, size |-> size,
     strand |-> strand, sequence_size |-> sequence_size, status |-> status]

update_from_s_line(fields, block_entries) ==
    LET alignment == PopStr(fields, 1, "s line incomplete")
        sequence_size == PopU64(fields, 2, "s line incomplete", "invalid sequence size")
        strand == PopStrand(fields, 3, "s line incomplete")
        aligned_length == PopU64(fields, 4, "s line incomplete", "invalid aligned length")
        start == PopU64(fields, 5, "s line incomplete", "invalid start")
        seq == PopStr(fields, 6, "s line incomplete")
    IN  IF ~alignment.ok THEN alignment
        ELSE IF ~sequence_size.ok THEN sequence_size
        ELSE IF ~strand.ok THEN strand
        ELSE IF ~aligned_length.ok THEN aligned_length
        ELSE IF ~start.ok THEN start
        ELSE IF ~seq.ok THEN seq
        ELSE Ok(Append(block_entries,
                       AlignedEntry(seq.val, start.val, aligned_length.val,
                                    strand.val, sequence_size.val,
                                    alignment.val, None)))

parse_aligned_context_status(tok) ==
    CASE tok = <<"C">> -> Ok("Contiguous")
      [] tok = <<"I">> -> Ok("Insertion")
      [] tok = <<"N">> -> Ok("FirstInSequence")
      [] tok = <<"n">> -> Ok("FirstInSequenceBridged")
      [] tok = <<"M">> -> Ok("MissingData")
      [] tok = <<"T">> -> Ok("AlreadyUsed")
      [] OTHER -> Err(ErrMisc("invalid aligned context status"))

PopAlignedStatus(fields, k, incomplete) ==
    LET f == PopField(fields, k)
    IN  IF f = None THEN Err(ErrMisc(incomplete))
        ELSE parse_aligned_context_status(f[1])

\* update_from_i_line without the comparison of e.seq with seq (parser.rs:174).
update_from_i_line_any_seq(fields, block_entries) ==
    LET right_count == PopU64(fields, 1, "i line incomplete", "invalid right count")
        right_status == PopAlignedStatus(fields, 2, "i line incomplete")
        left_count == PopU64(fields, 3, "i line incomplete", "invalid left count")
        left_status == PopAlignedStatus(fields, 4, "i line incomplete")
        seq == PopStr(fields, 5, "i line incomplete")
        n == Len(block_entries)
    IN  IF ~right_count.ok THEN right_count
        ELSE IF ~right_status.ok THEN right_status
        ELSE IF ~left_count.ok THEN left_count
        ELSE IF ~left_status.ok THEN left_status
        ELSE IF ~seq.ok THEN seq
        ELSE IF n = 0
             THEN Err(ErrUnexpectedLine(<<"i line cannot be first in block">>))
        ELSE IF block_entries[n].kind = "Aligned"
             THEN Ok([block_entries EXCEPT ![n].context =
                        Some([left_status |-> left_status.val,
                              left_count |-> left_count.val,
                              right_status |-> right_status.val,
                              right_count |-> right_count.val])])
        ELSE Err(ErrUnexpectedLine(<<"i line must follow a corresponding s line">>))

update_from_i_line(fields, block_entries) ==
    LET right_count == PopU64(fields, 1, "i line incomplete", "invalid right count")
        right_status == PopAlignedStatus(fields, 2, "i line incomplete")
        left_count == PopU64(fields, 3, "i line incomplete", "invalid left count")
        left_status == PopAlignedStatus(fields, 4, "i line incomplete")
        seq == PopStr(fields, 5, "i line incomplete")
        n == Len(block_entries)
    IN  IF ~right_count.ok THEN right_count
        ELSE IF ~right_status.ok THEN right_status
        ELSE IF ~left_count.ok THEN left_count
        ELSE IF ~left_status.ok THEN left_status
        ELSE IF ~seq.ok THEN seq
        ELSE IF n = 0
             THEN Err(ErrUnexpectedLine(<<"i line cannot be first in block">>))
        ELSE IF block_entries[n].kind = "Aligned" /\ block_entries[n].seq = seq.val
             THEN Ok([block_entries EXCEPT ![n].context =
                        Some([left_status |-> left_status.val,
                              left_count |-> left_count.val,
                              right_status |-> right_status.val,
                              right_count |-> right_count.val])])
        ELSE Err(ErrUnexpectedLine(<<"i line must follow a corresponding s line">>))

\* The match on status_char of update_from_e_line (parser.rs:202-209).
parse_unaligned_context_status(tok) ==
    CASE tok = <<"C">> -> Ok("Deletion")
      [] tok = <<"I">> -> Ok("Insertion")
      [] tok = <<"M">> -> Ok("MissingData")
      [] tok = <<"n">> -> Ok("NewSequence")
      [] tok = <<"T">> -> Ok("AlreadyUsed")
      [] OTHER -> Err(ErrMisc("invalid unaligned context status character"))

update_from_e_line(fields, block_entries) ==
    LET status_char == PopStr(fields, 1, "e line incomplete")
        sequence_size == PopU64(fields, 2, "e line incomplete", "invalid sequence size")
        strand == PopStrand(fields, 3, "e line incomplete")
        unaligned_length == PopU64(fields, 4, "e line incomplete", "invalid unaligned length")
        start == PopU64(fields, 5, "e line incomplete", "invalid start")
        seq == PopStr(fields, 6, "e line incomplete")
    IN  IF ~status_char.ok THEN status_char
        ELSE IF ~sequence_size.ok THEN sequence_size
        ELSE IF ~strand.ok THEN strand
        ELSE IF ~unaligned_length.ok THEN unaligned_length
        ELSE IF ~start.ok THEN start
        ELSE IF ~seq.ok THEN seq
        ELSE IF ~parse_unaligned_context_status(status_char.val).ok
             THEN parse_unaligned_context_status(status_char.val)
        ELSE Ok(Append(block_entries,
                       UnalignedEntry(seq.val, start.val, unaligned_length.val,
                                      strand.val, sequence_size.val,
                                      parse_unaligned_context_status(status_char.val).val)))


(***************************************************************************)
(* parse_block (parser.rs:222-245).  The value is [res, used]: the Result  *)
(* and the number of lines taken from the iterator.                        *)
(***************************************************************************)
MAFBlock(metadata, entries) == [metadata |-> metadata, entries |-> entries]

RECURSIVE ParseBody(_, _, _, _)
ParseBody(metadata, block_entries, rest, used) ==
    IF Len(rest) = 0 THEN [res |-> Ok(MAFBlock(metadata, block_entries)), used |-> used]
    ELSE IF Head(rest) = IOFailure THEN [res |-> Err(ErrIO), used |-> used + 1]
    ELSE LET line == LinesRefNext(Head(rest))
             fields == split_whitespace(line)
         IN  IF Len(line) = 0
             THEN [res |-> Ok(MAFBlock(metadata, block_entries)), used |-> used + 1]
             ELSE IF Len(fields) = 0
             THEN [res |-> Panic("index out of bounds: fields[0]"), used |-> used + 1]
             ELSE LET r == IF fields[1] = <<"s">>
                             THEN update_from_s_line(fields, block_entries)
                           ELSE IF fields[1] = <<"i">>
                             THEN update_from_i_line(fields, block_entries)
                           ELSE IF fields[1] = <<"e">>
                             THEN update_from_e_line(fields, block_entries)
                           ELSE Err(ErrBadLineType(fields[1]))
                  IN  IF r.ok THEN ParseBody(metadata, r.val, Tail(rest), used + 1)
                      ELSE [res |-> r, used |-> used + 1]

\* parse_block that reads one more line after the empty line of the block.
parse_block_reads_on(header, iter) ==
    LET block_metadata == metadata_from_header(header)
        r == ParseBody(block_metadata.val, <<>>, iter, 0)
    IN  IF ~block_metadata.ok THEN [res |-> block_metadata, used |-> 0]
        ELSE IF r.res.ok /\ r.used < Len(iter) THEN [r EXCEPT !.used = @ + 1]
        ELSE r

parse_block(header, iter) ==
    LET block_metadata == metadata_from_header(header)
    IN  IF ~block_metadata.ok THEN [res |-> block_metadata, used |-> 0]
        ELSE ParseBody(block_metadata.val, <<>>, iter, 0)

(***************************************************************************)
(* next_maf_item (parser.rs:56-81).  The value is [item, used]: what the   *)
(* call returns and the number of lines it read from the stream.           *)
(***************************************************************************)
ItemBlock(b) == [tag |-> "Block", block |-> b]
ItemComment(t) == [tag |-> "Comment", text |-> t]
ItemErr(e) == [tag |-> "Err", err |-> e]
ItemPanic == [tag |-> "Panic"]
ItemNone == [tag |-> "None"]

RECURSIVE next_maf_item_from(_, _)
next_maf_item_from(rest, used) ==
    IF Len(rest) = 0 THEN [item |-> ItemErr(ErrEOF), used |-> used]
    ELSE IF Head(rest) = IOFailure THEN [item |-> ItemErr(ErrIO), used |-> used + 1]
    ELSE LET line == LinesRefNext(Head(rest))
         IN  IF TrimIsEmpty(line) THEN next_maf_item_from(Tail(rest), used + 1)
             ELSE IF line[1] = "#"
             THEN [item |-> ItemComment(Tail(line)), used |-> used + 1]
             ELSE IF line[1] = "a"
             THEN LET b == parse_block(line, Tail(rest))
                  IN  [item |-> IF b.res.ok THEN ItemBlock(b.res.val)
                                ELSE IF b.res.panic THEN ItemPanic
                                ELSE ItemErr(b.res.err),
                       used |-> used + 1 + b.used]
             ELSE [item |-> ItemErr(ErrUnexpectedLine(line)), used |-> used + 1]

\* next_maf_item that answers EOF when the input ends with no empty line
\* after the block.
next_maf_item_eof_mid_block(stream) ==
    LET r == next_maf_item_from(stream, 0)
    IN  IF /\ r.item.tag = "Block"
           /\ r.used = Len(stream)
           /\ LinesRefNext(stream[Len(stream)]) # <<>>
        THEN [r EXCEPT !.item = ItemErr(ErrEOF)]
        ELSE r

next_maf_item(stream) == next_maf_item_from(stream, 0)

(***************************************************************************)
(* impl fmt::Display for MAFBlock (output.rs:9-67).  The value is the      *)
(* sequence of the lines written, each without its '\n'.                   *)
(***************************************************************************)
RECURSIVE JoinWith(_, _)
JoinWith(toks, sep) ==
    IF Len(toks) = 0 THEN <<>>
    ELSE IF Len(toks) = 1 THEN toks[1]
    ELSE toks[1] \o sep \o JoinWith(Tail(toks), sep)

\* aligned_context_status_char with the rows of "N" and "n" confused.
aligned_context_status_char_Nn(status) ==
    CASE status = "Contiguous" -> <<"C">>
      [] status = "Insertion" -> <<"I">>
      [] status = "FirstInSequence" -> <<"n">>
      [] status = "FirstInSequenceBridged" -> <<"N">>
      [] status = "MissingData" -> <<"M">>
      [] status = "AlreadyUsed" -> <<"T">>

aligned_context_status_char(status) ==
    CASE status = "Contiguous" -> <<"C">>
      [] status = "Insertion" -> <<"I">>
      [] status = "FirstInSequence" -> <<"N">>
      [] status = "FirstInSequenceBridged" -> <<"n">>
      [] status = "MissingData" -> <<"M">>
      [] status = "AlreadyUsed" -> <<"T">>

unaligned_context_status_char(status) ==
    CASE status = "Deletion" -> <<"C">>
      [] status = "Insertion" -> <<"I">>
      [] status = "MissingData" -> <<"M">>
      [] status = "NewSequence" -> <<"n">>
      [] status = "AlreadyUsed" -> <<"T">>

StrandChar(strand) == IF strand = "Positive" THEN <<"+">> ELSE <<"-">>

RECURSIVE DisplayMetadata(_)
DisplayMetadata(m) ==
    IF Len(m) = 0 THEN <<>>
    ELSE <<" ">> \o m[1].key \o <<"=">> \o m[1].value \o DisplayMetadata(Tail(m))

DisplayEntry(e) ==
    IF e.kind = "Aligned"
    THEN <<JoinWith(<<<<"s">>, e.seq, FmtU64(e.start), FmtU64(e.aligned_length),
                      StrandChar(e.strand), FmtU64(e.sequence_size), e.alignment>>,
                    <<" ">>)>>
         \o (IF e.context = None THEN <<>>
             ELSE <<JoinWith(<<<<"i">>, e.seq,
                               aligned_context_status_char(e.context[1].left_status),
                               FmtU64(e.context[1].left_count),
                               aligned_context_status_char(e.context[1].right_status),
                               FmtU64(e.context[1].right_count)>>,
                             <<" ">>)>>)
    ELSE <<JoinWith(<<<<"e">>, e.seq, FmtU64(e.start), FmtU64(e.size),
                      StrandChar(e.strand), FmtU64(e.sequence_size),
                      unaligned_context_status_char(e.status)>>,
                    <<" ">>)>>

RECURSIVE DisplayEntries(_)
DisplayEntries(es) ==
    IF Len(es) = 0 THEN <<>> ELSE DisplayEntry(es[1]) \o DisplayEntries(Tail(es))

DisplayBlock(b) ==
    <<(<<"a">> \o DisplayMetadata(b.metadata))>> \o DisplayEntries(b.entries) \o << <<>> >>


(***************************************************************************)
(* Base calls of a merged column (dup_blocks.rs:33-85, 104-110).  A        *)
(* BaseCounts is the record [a, c, g, t]; a base is the character the      *)
(* function returns as u8.                                                 *)
(***************************************************************************)
BaseCounts(a, c, g, t) == [a |-> a, c |-> c, g |-> g, t |-> t]

\* unanimous_base without the test of base_counts.t in its first branch.
unanimous_base_a_ignores_t(base_counts) ==
    IF base_counts.a > 0 /\ base_counts.c = 0 /\ base_counts.g = 0
    THEN "A"
    ELSE IF base_counts.a = 0 /\ base_counts.c > 0 /\ base_counts.g = 0 /\ base_counts.t = 0
    THEN "C"
    ELSE IF base_counts.a = 0 /\ base_counts.c = 0 /\ base_counts.g > 0 /\ base_counts.t = 0
    THEN "G"
    ELSE IF base_counts.a = 0 /\ base_counts.c = 0 /\ base_counts.g = 0 /\ base_counts.t > 0
    THEN "T"
    ELSE "N"

unanimous_base(base_counts) ==
    IF base_counts.a > 0 /\ base_counts.c = 0 /\ base_counts.g = 0 /\ base_counts.t = 0
    THEN "A"
    ELSE IF base_counts.a = 0 /\ base_counts.c > 0 /\ base_counts.g = 0 /\ base_counts.t = 0
    THEN "C"
    ELSE IF base_counts.a = 0 /\ base_counts.c = 0 /\ base_counts.g > 0 /\ base_counts.t = 0
    THEN "G"
    ELSE IF base_counts.a = 0 /\ base_counts.c = 0 /\ base_counts.g = 0 /\ base_counts.t > 0
    THEN "T"
    ELSE "N"

\* max_among_possibilities whose max_so_far starts at base_counts.a even when
\* possibilities[0] is false.
max_among_possibilities_a_always(base_counts, possibilities) ==
    LET m0 == base_counts.a
        c_wins == possibilities[2] /\ m0 < base_counts.c
        p1 == IF c_wins THEN [possibilities EXCEPT ![1] = FALSE]
              ELSE IF base_counts.c < m0 THEN [possibilities EXCEPT ![2] = FALSE]
              ELSE possibilities
        m1 == IF c_wins THEN base_counts.c ELSE m0
        g_wins == p1[3] /\ m1 < base_counts.g
        p2 == IF g_wins THEN [p1 EXCEPT ![1] = FALSE, ![2] = FALSE]
              ELSE IF base_counts.g < m1 THEN [p1 EXCEPT ![3] = FALSE]
              ELSE p1
        m2 == IF g_wins THEN base_counts.g ELSE m1
        t_wins == p2[4] /\ m2 < base_counts.t
    IN  IF t_wins THEN [p2 EXCEPT ![1] = FALSE, ![2] = FALSE, ![3] = FALSE]
        ELSE IF base_counts.t < m2 THEN [p2 EXCEPT ![4] = FALSE]
        ELSE p2

\* The value is the possibilities array as the function leaves it;
\* m0, m1, m2 are max_so_far after the tests of a, c and g.
max_among_possibilities(base_counts, possibilities) ==
    LET m0 == IF possibilities[1] THEN base_counts.a ELSE 0
        c_wins == possibilities[2] /\ m0 < base_counts.c
        p1 == IF c_wins THEN [possibilities EXCEPT ![1] = FALSE]
              ELSE IF base_counts.c < m0 THEN [possibilities EXCEPT ![2] = FALSE]
              ELSE possibilities
        m1 == IF c_wins THEN base_counts.c ELSE m0
        g_wins == p1[3] /\ m1 < base_counts.g
        p2 == IF g_wins THEN [p1 EXCEPT ![1] = FALSE, ![2] = FALSE]
              ELSE IF base_counts.g < m1 THEN [p1 EXCEPT ![3] = FALSE]
              ELSE p1
        m2 == IF g_wins THEN base_counts.g ELSE m1
        t_wins == p2[4] /\ m2 < base_counts.t
    IN  IF t_wins THEN [p2 EXCEPT ![1] = FALSE, ![2] = FALSE, ![3] = FALSE]
        ELSE IF base_counts.t < m2 THEN [p2 EXCEPT ![4] = FALSE]
        ELSE p2

consensus_base(base_counts, tie_breaker) ==
    LET possible_bases ==
            max_among_possibilities(tie_breaker,
                max_among_possibilities(base_counts, <<TRUE, TRUE, TRUE, TRUE>>))
    IN  IF possible_bases = <<TRUE, FALSE, FALSE, FALSE>> THEN "A"
        ELSE IF possible_bases = <<FALSE, TRUE, FALSE, FALSE>> THEN "C"
        ELSE IF possible_bases = <<FALSE, FALSE, TRUE, FALSE>> THEN "G"
        ELSE IF possible_bases = <<FALSE, FALSE, FALSE, TRUE>> THEN "T"
        ELSE "N"

(***************************************************************************)
(* Blocks by genome (multiple_alignment_format lib.rs:144-155).  A HashMap *)
(* is a function from its keys; the order in which it is iterated is not   *)
(* fixed by the code and is an input of whoever iterates it.               *)
(***************************************************************************)
IsAligned(e) == e.kind = "Aligned"

aligned_entries(block) == SelectSeq(block.entries, IsAligned)

\* a.seq.split('.').next().unwrap(): the characters before the first '.'.
species_of(seq) ==
    LET dots == {i \in 1..Len(seq) : seq[i] = "."}
    IN  IF dots = {} THEN seq
        ELSE SubSeq(seq, 1, (CHOOSE i \in dots : \A j \in dots : i <= j) - 1)

entries_as_hash(block) ==
    LET aligned == aligned_entries(block)
        keys == {species_of(aligned[i].seq) : i \in 1..Len(aligned)}
    IN  [species \in keys |->
            LET OfSpecies(a) == species_of(a.seq) = species
            IN  SelectSeq(aligned, OfSpecies)]

\* Every order in which the keys S of a HashMap can be iterated.
IterationOrders(S) ==
    {order \in [1..Cardinality(S) -> S] :
        \A i, j \in 1..Cardinality(S) : order[i] = order[j] => i = j}

(***************************************************************************)
(* Merging duplicates (dup_blocks.rs:6-14, 87-149).                        *)
(***************************************************************************)
dup_entries_from_block(block) ==
    LET hash == entries_as_hash(block)
    IN  [species \in {k \in DOMAIN hash : Len(hash[k]) > 1} |-> hash[species]]

\* block_contains_dups that asks for two Aligned entries of any genome.
block_contains_dups_any_two(block) == Len(aligned_entries(block)) > 1

block_contains_dups(block) == DOMAIN dup_entries_from_block(block) # {}

\* u8::eq_ignore_ascii_case against one of b'a', b'c', b'g', b't'.
EqIgnoreAsciiCase(ch, lower) ==
    \/ ch = lower
    \/ (lower = "a" /\ ch = "A") \/ (lower = "c" /\ ch = "C")
    \/ (lower = "g" /\ ch = "G") \/ (lower = "t" /\ ch = "T")

\* entries[0] of an empty slice and e.alignment[i] past the end of a shorter
\* alignment are index panics.
get_consensus_info(entries) ==
    IF Len(entries) = 0 THEN Panic(<<"index out of bounds: entries[0]">>)
    ELSE LET length == Len(entries[1].alignment)
             CountOfBase(i, b) ==
                 Cardinality({k \in 1..Len(entries) :
                                 EqIgnoreAsciiCase(entries[k].alignment[i], b)})
         IN  IF \E k \in 1..Len(entries) : Len(entries[k].alignment) < length
             THEN Panic(<<"index out of bounds: e.alignment[i]">>)
             ELSE Ok([i \in 1..length |->
                        BaseCounts(CountOfBase(i, "a"), CountOfBase(i, "c"),
                                   CountOfBase(i, "g"), CountOfBase(i, "t"))])

\* MergeOneSpecies whose Mask mode leaves the gap columns of the first
\* duplicate as they are.
MergeOneSpecies_mask_keeps_gaps(alignments, block_consensus, mode) ==
    LET first == alignments[1]
    IN  Ok([first EXCEPT !.alignment =
              [i \in 1..Len(first.alignment) |->
                  IF first.alignment[i] = "-" THEN "-" ELSE "N"]])

\* One iteration of the loop of merge_dup_entries: the merged entry of the
\* duplicates `alignments` of one species.
MergeOneSpecies(alignments, block_consensus, mode) ==
    LET merged_alignment == alignments[1]
        base_counts == get_consensus_info(alignments)
        length == Len(merged_alignment.alignment)
    IN  IF base_counts.panic THEN base_counts
        ELSE IF mode = "Consensus" /\ length > Len(block_consensus)
        THEN Panic(<<"index out of bounds: block_consensus[i]">>)
        ELSE Ok([merged_alignment EXCEPT !.alignment =
                    [i \in 1..length |->
                        CASE mode = "Mask" -> "N"
                          [] mode = "Unanimity" -> unanimous_base(base_counts.val[i])
                          [] mode = "Consensus" ->
                                consensus_base(base_counts.val[i], block_consensus[i])]])

\* The loop of merge_dup_entries from the k-th species of the iteration on.
RECURSIVE MergeDupEntriesFrom(_, _, _, _, _)
MergeDupEntriesFrom(dup_entries, order, k, block_consensus, mode) ==
    IF k > Len(order) THEN Ok(<<>>)
    ELSE LET one == MergeOneSpecies(dup_entries[order[k]], block_consensus, mode)
             more == MergeDupEntriesFrom(dup_entries, order, k + 1, block_consensus, mode)
         IN  IF one.panic THEN one
             ELSE IF more.panic THEN more
             ELSE Ok(<<one.val>> \o more.val)

\* `order` is the order in which dup_entries.iter() yields the species.
merge_dup_entries(dup_entries, order, block_consensus, mode) ==
    MergeDupEntriesFrom(dup_entries, order, 1, block_consensus, mode)

\* The Block arm that clears no entry out of the block.
MergedBlock_retains_all(block, order, mode) ==
    LET dup_entries == dup_entries_from_block(block)
        block_counts == get_consensus_info(aligned_entries(block))
    IN  IF block_counts.panic THEN block_counts
        ELSE LET merged_entries ==
                     merge_dup_entries(dup_entries, order, block_counts.val, mode)
             IN  IF merged_entries.panic THEN merged_entries
                 ELSE Ok(MAFBlock(block.metadata,
                                  block.entries \o merged_entries.val))

\* The MAFItem::Block arm of output_merged_consensus_blocks, up to the block
\* it writes.
MergedBlock(block, order, mode) ==
    LET dup_entries == dup_entries_from_block(block)
        block_counts == get_consensus_info(aligned_entries(block))
        values == UNION {{dup_entries[s][i] : i \in 1..Len(dup_entries[s])} :
                            s \in DOMAIN dup_entries}
        Retained(e) == ~(IsAligned(e) /\ e \in values)
        new_block_entries == SelectSeq(block.entries, Retained)
    IN  IF block_counts.panic THEN block_counts
        ELSE LET merged_entries ==
                     merge_dup_entries(dup_entries, order, block_counts.val, mode)
             IN  IF merged_entries.panic THEN merged_entries
                 ELSE Ok(MAFBlock(block.metadata,
                                  new_block_entries \o merged_entries.val))

(***************************************************************************)
(* Coverage (coverage.rs:8-135).  A Range is the record [seq, start, end]; *)
(* a BTreeSet<Range> is a set read in the order of Ord for Range.  u64     *)
(* arithmetic that leaves 0..U64Max panics in a build with overflow checks *)
(* and wraps in a build without them.                                      *)
(***************************************************************************)
Range(seq, start, end) == [seq |-> seq, start |-> start, end |-> end]

\* Ord for Range: (seq, start, Reverse(end)).
RangeLess(a, b) ==
    \/ StrLess(a.seq, b.seq)
    \/ /\ a.seq = b.seq
       /\ \/ a.start < b.start
          \/ a.start = b.start /\ b.end < a.end

WrapU64(x) == x % Pow2(U64Bits)

aligned_base(b) == b \in {"A", "C", "G", "T", "N", "a", "c", "g", "t", "n"}

\* in_range that does not compare the sequence of the range it finds.
in_range_any_seq(ranges, chrom, position) ==
    IF ranges = None THEN TRUE
    ELSE LET set == ranges[1]
             pos == Range(chrom, position, WrapU64(position + 1))
             upto == {r \in set : r = pos \/ RangeLess(r, pos)}
         IN  IF upto = {} THEN FALSE
             ELSE LET range == CHOOSE r \in upto :
                                  \A q \in upto : q = r \/ RangeLess(q, r)
                  IN  range.start <= position /\ range.end > position

\* set.range(..=pos).next_back() is the greatest range not above pos.
in_range(ranges, chrom, position) ==
    IF ranges = None THEN TRUE
    ELSE LET set == ranges[1]
             pos == Range(chrom, position, WrapU64(position + 1))
             upto == {r \in set : r = pos \/ RangeLess(r, pos)}
         IN  IF upto = {} THEN FALSE
             ELSE LET range == CHOOSE r \in upto :
                                  \A q \in upto : q = r \/ RangeLess(q, r)
                  IN  range.seq = chrom /\ range.start <= position
                                        /\ range.end > position

\* ref_entry.seq.split(".").skip(1).join("."): the characters after the first
\* '.', none if there is no '.'.
chrom_of(seq) ==
    LET dots == {i \in 1..Len(seq) : seq[i] = "."}
    IN  IF dots = {} THEN <<>>
        ELSE SubSeq(seq, (CHOOSE i \in dots : \A j \in dots : i <= j) + 1, Len(seq))

\* The columns of an alignment that hold an aligned base, in order.
AlignedColumns(alignment) ==
    LET IsAlignedColumn(i) == aligned_base(alignment[i])
    IN  SelectSeq([i \in 1..Len(alignment) |-> i], IsAlignedColumn)

\* ref_pos before it is reduced to u64.
RefPosUnbounded(ref_entry, ref_offset) ==
    IF ref_entry.strand = "Positive"
    THEN ref_entry.start + ref_offset
    ELSE ref_entry.sequence_size - ref_entry.start - ref_offset

\* The columns of ref_entry that add_block_with_ref_entry does not skip as
\* gaps: column i, ref_offset before its increment, ref_pos, whether
\* computing ref_pos or position + 1 left u64, and what in_range returned.
ProbesOf(ref_entry, ranges) ==
    LET cols == AlignedColumns(ref_entry.alignment)
        chrom == chrom_of(ref_entry.seq)
    IN  [k \in 1..Len(cols) |->
            LET unbounded == RefPosUnbounded(ref_entry, k - 1)
            IN  [entry |-> ref_entry, i |-> cols[k], ref_offset |-> k - 1,
                 ref_pos |-> WrapU64(unbounded),
                 overflow |-> \/ unbounded < 0
                              \/ unbounded > U64Max
                              \/ ranges # None /\ WrapU64(unbounded) = U64Max,
                 in_range |-> in_range(ranges, chrom, WrapU64(unbounded))]]

RECURSIVE FlattenSeqs(_)
FlattenSeqs(ss) == IF Len(ss) = 0 THEN <<>> ELSE Head(ss) \o FlattenSeqs(Tail(ss))

RECURSIVE SumSeq(_)
SumSeq(ns) == IF Len(ns) = 0 THEN 0 ELSE Head(ns) + SumSeq(Tail(ns))

\* genome_entry.alignment[i] past the end of an alignment, read before an
\* aligned base was found in an earlier entry of the genome.
IndexPanic(genome_entries, i) ==
    \E k \in 1..Len(genome_entries) :
        /\ Len(genome_entries[k].alignment) < i
        /\ \A j \in 1..(k - 1) : ~aligned_base(genome_entries[j].alignment[i])

\* What one column adds to a genome when every one of its aligned entries
\* counts.
ColumnGain_per_entry(genome_entries, i) ==
    Cardinality({k \in 1..Len(genome_entries) :
                    /\ i <= Len(genome_entries[k].alignment)
                    /\ aligned_base(genome_entries[k].alignment[i])})

\* What one column adds to a genome: 1 if found_alignment, else 0.
ColumnGain(genome_entries, i) ==
    IF \E k \in 1..Len(genome_entries) :
          /\ i <= Len(genome_entries[k].alignment)
          /\ aligned_base(genome_entries[k].alignment[i])
    THEN 1 ELSE 0

EmptyMap == [k \in {} |-> 0]

MAFCoverageNew(ref_genome, ranges) ==
    [coverage |-> EmptyMap, ranges |-> ranges, ref_genome |-> ref_genome,
     ref_lengths |-> EmptyMap]

\* add_block: the value is the MAFCoverage after the call, whether the call
\* panicked, and the probes made up to the panic.
add_block(self, block, overflow_checks) ==
    LET entries == entries_as_hash(block)
        ref_entries == IF self.ref_genome \in DOMAIN entries
                       THEN entries[self.ref_genome] ELSE <<>>
        all_probes == FlattenSeqs([j \in 1..Len(ref_entries) |->
                                      ProbesOf(ref_entries[j], self.ranges)])
        groups == {entries[g] : g \in DOMAIN entries}
        Panics(p) ==
            \/ overflow_checks /\ p.overflow
            \/ p.in_range /\ \E genome_entries \in groups :
                                 IndexPanic(genome_entries, p.i)
        panicking == {k \in 1..Len(all_probes) : Panics(all_probes[k])}
        Gain(g) ==
            IF g \notin DOMAIN entries THEN 0
            ELSE LET genome_entries == entries[g]
                 IN  SumSeq([k \in 1..Len(all_probes) |->
                                IF all_probes[k].in_range
                                THEN ColumnGain(genome_entries, all_probes[k].i)
                                ELSE 0])
        gained == {g \in DOMAIN entries : Gain(g) > 0}
        ref_seqs == {ref_entries[j].seq : j \in 1..Len(ref_entries)}
        FirstWith(seq) == CHOOSE j \in 1..Len(ref_entries) :
                             /\ ref_entries[j].seq = seq
                             /\ \A h \in 1..(j - 1) : ref_entries[h].seq # seq
    IN  IF panicking # {}
        THEN [panic |-> TRUE, self |-> self,
              probes |-> SubSeq(all_probes, 1,
                                CHOOSE k \in panicking : \A h \in panicking : k <= h)]
        ELSE [panic |-> FALSE,
              self |-> [self EXCEPT
                  !.coverage = [g \in DOMAIN self.coverage \cup gained |->
                                   (IF g \in DOMAIN self.coverage
                                    THEN self.coverage[g] ELSE 0) + Gain(g)],
                  !.ref_lengths = [s \in DOMAIN self.ref_lengths \cup ref_seqs |->
                                      IF s \in DOMAIN self.ref_lengths
                                      THEN self.ref_lengths[s]
                                      ELSE ref_entries[FirstWith(s)].sequence_size]],
              probes |-> all_probes]

(***************************************************************************)
(* Ranges of the column filter (src/src/lib.rs:7-90).  The Range of lib.rs *)
(* has the fields of the Range of coverage.rs and another order.           *)
(***************************************************************************)
\* Ord for lib::Range: (seq, start, end).
LibRangeLess(a, b) ==
    \/ StrLess(a.seq, b.seq)
    \/ /\ a.seq = b.seq
       /\ \/ a.start < b.start
          \/ a.start = b.start /\ a.end < b.end

LibRangeLeq(a, b) == a = b \/ LibRangeLess(a, b)

overlaps(self, chrom, position) ==
    self.seq = chrom /\ self.start <= position /\ self.end > position

\* precedes that keeps a range that ends at the position.
precedes_strict(self, chrom, position) ==
    StrLess(self.seq, chrom) \/ self.end < position

precedes(self, chrom, position) ==
    StrLess(self.seq, chrom) \/ self.end <= position

succeeds(self, chrom, position) ==
    StrLess(chrom, self.seq) \/ self.start > position

\* The ranges of a BTreeSet<lib::Range> in ascending order.
RECURSIVE SortedRanges(_)
SortedRanges(set) ==
    IF set = {} THEN <<>>
    ELSE LET least == CHOOSE r \in set : \A q \in set : LibRangeLeq(r, q)
         IN  <<least>> \o SortedRanges(set \ {least})

\* overlapping_ranges without the range it takes from below the query.
overlapping_ranges_from_query(set, range) ==
    LET end == Range(range.seq, range.end, range.end)
        between == {r \in set : LibRangeLeq(range, r) /\ LibRangeLeq(r, end)}
    IN  IF LibRangeLess(end, range)
        THEN Panic(<<"range start is greater than range end in BTreeSet">>)
        ELSE Ok(SortedRanges(between))

\* The value is the sequence the iterator yields; BTreeSet::range panics
\* when the start of its bounds is above their end.
overlapping_ranges(set, range) ==
    LET end == Range(range.seq, range.end, range.end)
        upto == {r \in set : LibRangeLeq(r, range)}
        last == IF upto = {} THEN <<>>
                ELSE <<CHOOSE r \in upto : \A q \in upto : LibRangeLeq(q, r)>>
        between == {r \in set : LibRangeLeq(range, r) /\ LibRangeLeq(r, end)}
    IN  IF LibRangeLess(end, range)
        THEN Panic(<<"range start is greater than range end in BTreeSet">>)
        ELSE Ok(last \o SortedRanges(between))

\* The value is Ok(the bool returned) or the panic of position + 1 in a
\* build with overflow checks.
range_contains_pos(set, chrom, position, overflow_checks) ==
    LET pos == Range(chrom, WrapU64(position + 1), WrapU64(position + 1))
        upto == {r \in set : LibRangeLeq(r, pos)}
        next_back == CHOOSE r \in upto : \A q \in upto : LibRangeLeq(q, r)
    IN  IF overflow_checks /\ position + 1 > U64Max
        THEN Panic(<<"attempt to add with overflow">>)
        ELSE IF upto = {} THEN Ok(FALSE)
        ELSE Ok(overlaps(next_back, chrom, position))

chrom_part(seq) == chrom_of(seq)

(***************************************************************************)
(* The column filter (filter.rs:7-106).  A Run is [start, length] with     *)
(* start counted from 0 as in the code; column start of a run is           *)
(* alignment[start + 1] here.  An iterator is its current item and the     *)
(* items it has still to yield.                                            *)
(***************************************************************************)
Run(start, length) == [start |-> start, length |-> length]

IterNext(rest) ==
    IF Len(rest) = 0 THEN [current |-> None, rest |-> <<>>]
    ELSE [current |-> Some(Head(rest)), rest |-> Tail(rest)]

\* while current_range.map_or(false, |r| r.precedes(&chrom, current_pos))
RECURSIVE SkipPreceding(_, _, _)
SkipPreceding(it, chrom, current_pos) ==
    IF it.current # None /\ precedes(it.current[1], chrom, current_pos)
    THEN SkipPreceding(IterNext(it.rest), chrom, current_pos)
    ELSE it

\* The loop of get_filtered_columns from column i (counted from 0) on.
RECURSIVE FilterColumnsFrom(_, _, _, _, _, _, _)
FilterColumnsFrom(ref_entry, chrom, i, it, current_pos, was_within_run, runs) ==
    IF i >= Len(ref_entry.alignment) THEN runs
    ELSE LET at == SkipPreceding(it, chrom, current_pos)
         IN  IF \/ at.current = None
                \/ succeeds(at.current[1], chrom,
                            ref_entry.start + ref_entry.aligned_length)
             THEN runs
             ELSE LET c == ref_entry.alignment[i + 1]
                      within_run == c # "-" /\ overlaps(at.current[1], chrom, current_pos)
                  IN  FilterColumnsFrom(ref_entry, chrom, i + 1, at,
                          IF c # "-" THEN current_pos + 1 ELSE current_pos,
                          within_run,
                          IF ~within_run THEN runs
                          ELSE IF was_within_run
                          THEN [runs EXCEPT ![Len(runs)].length = @ + 1]
                          ELSE Append(runs, Run(i, 1)))

\* get_filtered_columns without its assertion on the strand.
get_filtered_columns_any_strand(ref_entry, ranges) ==
    LET chrom == chrom_part(ref_entry.seq)
        relevant_ranges ==
            overlapping_ranges(ranges,
                Range(chrom, ref_entry.start,
                      ref_entry.start + ref_entry.aligned_length))
    IN  IF relevant_ranges.panic THEN relevant_ranges
        ELSE Ok(FilterColumnsFrom(ref_entry, chrom, 0,
                                  IterNext(relevant_ranges.val),
                                  ref_entry.start, FALSE, <<>>))

get_filtered_columns(ref_entry, ranges) ==
    IF ref_entry.strand # "Positive"
    THEN Panic(<<"assertion failed: ref_entry.strand == Strand::Positive">>)
    ELSE LET chrom == chrom_part(ref_entry.seq)
             relevant_ranges ==
                 overlapping_ranges(ranges,
                     Range(chrom, ref_entry.start,
                           ref_entry.start + ref_entry.aligned_length))
         IN  IF relevant_ranges.panic THEN relevant_ranges
             ELSE Ok(FilterColumnsFrom(ref_entry, chrom, 0,
                                       IterNext(relevant_ranges.val),
                                       ref_entry.start, FALSE, <<>>))

NonGapCount(alignment) ==
    Cardinality({i \in 1..Len(alignment) : alignment[i] # "-"})

\* .take_while(|c| **c == b'-').count()
LeadingGaps(alignment) ==
    Cardinality({i \in 1..Len(alignment) : \A j \in 1..i : alignment[j] = "-"})

\* filter_entry_columns that does not count the gaps that lead the run.
filter_entry_columns_no_leading_gaps(entry, run) ==
    IF run.start + run.length > Len(entry.alignment)
    THEN Panic(<<"range end index out of range for slice">>)
    ELSE LET slice == SubSeq(entry.alignment, run.start + 1, run.start + run.length)
             before_range_offset == NonGapCount(SubSeq(entry.alignment, 1, run.start))
         IN  Ok(AlignedEntry(entry.seq,
                             entry.start + before_range_offset,
                             NonGapCount(slice), entry.strand, entry.sequence_size,
                             slice, None))

\* A slice past the end of the alignment is an index panic.
filter_entry_columns(entry, run) ==
    IF run.start + run.length > Len(entry.alignment)
    THEN Panic(<<"range end index out of range for slice">>)
    ELSE LET slice == SubSeq(entry.alignment, run.start + 1, run.start + run.length)
             before_range_offset == NonGapCount(SubSeq(entry.alignment, 1, run.start))
             inside_range_offset == LeadingGaps(slice)
         IN  Ok(AlignedEntry(entry.seq,
                             entry.start + before_range_offset + inside_range_offset,
                             NonGapCount(slice), entry.strand, entry.sequence_size,
                             slice, None))

filter_block_columns(block, run) ==
    LET aligned == aligned_entries(block)
        filtered == [k \in 1..Len(aligned) |-> filter_entry_columns(aligned[k], run)]
    IN  IF \E k \in 1..Len(aligned) : filtered[k].panic
        THEN Panic(<<"range end index out of range for slice">>)
        ELSE Ok(MAFBlock(block.metadata, [k \in 1..Len(aligned) |-> filtered[k].val]))

filter_block(block, ranges) ==
    IF Len(aligned_entries(block)) = 0 THEN Ok(<<>>)
    ELSE LET ref_entry == aligned_entries(block)[1]
             runs == get_filtered_columns(ref_entry, ranges)
         IN  IF runs.panic THEN runs
             ELSE LET blocks == [k \in 1..Len(runs.val) |->
                                    filter_block_columns(block, runs.val[k])]
                  IN  IF \E k \in 1..Len(runs.val) : blocks[k].panic
                      THEN Panic(<<"range end index out of range for slice">>)
                      ELSE Ok([k \in 1..Len(runs.val) |-> blocks[k].val])

(***************************************************************************)
(* MAFCoverage::print (coverage.rs:107-117).  The value is the lines       *)
(* written: the header line, then one row per genome of the coverage map   *)
(* in the order `order` in which the HashMap yields them.  A row keeps its *)
(* fields apart; percentCoverage is the pair of the two u64 the f64        *)
(* division is made of.                                                    *)
(***************************************************************************)
RangeWidths(set) ==
    LET RECURSIVE Sum(_)
        Sum(S) == IF S = {} THEN 0
                  ELSE LET p == CHOOSE q \in S : TRUE
                       IN  (p.end - p.start) + Sum(S \ {p})
    IN  Sum(set)

coverage_print(self, order, overflow_checks) ==
    LET seqs == DOMAIN self.ref_lengths
        RECURSIVE SumOf(_)
        SumOf(S) == IF S = {} THEN 0
                    ELSE LET s == CHOOSE q \in S : TRUE
                         IN  self.ref_lengths[s] + SumOf(S \ {s})
        sum == IF self.ranges = None THEN SumOf(seqs)
               ELSE RangeWidths(self.ranges[1])
        underflow == /\ self.ranges # None
                     /\ \E p \in self.ranges[1] : p.end < p.start
        total == WrapU64(sum)
        header == [ref_genome |-> <<"referenceSpecies/Chr">>,
                   genome |-> <<"querySpecies/Chr">>,
                   total |-> <<"lengthOfReference">>,
                   percent |-> <<"percentCoverage">>,
                   coverage |-> <<"basesCoverage">>]
    IN  IF overflow_checks /\ (underflow \/ sum > U64Max)
        THEN Panic("attempt to add with overflow")
        ELSE Ok(<<header>> \o
                [k \in 1..Len(order) |->
                    [ref_genome |-> self.ref_genome,
                     genome |-> order[k],
                     total |-> total,
                     percent |-> <<self.coverage[order[k]], total>>,
                     coverage |-> self.coverage[order[k]]]])

(***************************************************************************)
(* MAFSplit (split.rs:8-57).  A file is the sequence of its bytes, a byte  *)
(* being a one-character string.  cur_file is the BufWriter: the name of   *)
(* the file it writes and the bytes it holds back until it is dropped (the *)
(* writes of the model stay under the capacity of a BufWriter, so that a   *)
(* BufWriter writes once, at offset 0, when it is dropped).  `files` is    *)
(* the output directory.                                                   *)
(***************************************************************************)
Newline == "\n"

\* The bytes of lines, each followed by '\n'.
RECURSIVE TextOf(_)
TextOf(lines) ==
    IF Len(lines) = 0 THEN <<>>
    ELSE Head(lines) \o <<Newline>> \o TextOf(Tail(lines))

MafVersionLine == <<"#", "#", "m", "a", "f", " ", "v", "e", "r", "s", "i", "o", "n", "=", "1">>

NoFiles == [name \in {} |-> <<>>]

\* MAFSplit::new
MAFSplitNew(max_length) ==
    [cur_chrom |-> None, cur_length |-> None, cur_file |-> None,
     max_length |-> max_length, files |-> NoFiles]

\* File::create(name): the file exists and is empty.
FileCreate(files, name) ==
    [n \in DOMAIN files \cup {name} |-> IF n = name THEN <<>> ELSE files[n]]

\* Dropping the BufWriter writes the bytes it holds at the start of its file.
DropWriter(files, writer) ==
    IF writer = None THEN files
    ELSE LET w == writer[1]
             old == files[w.name]
         IN  [files EXCEPT ![w.name] =
                 w.buffer \o SubSeq(old, Len(w.buffer) + 1, Len(old))]

\* MAFSplit::new_file
new_file(self, chrom, start_pos) ==
    LET name == chrom \o <<".">> \o FmtU64(start_pos) \o <<".", "m", "a", "f">>
        created == FileCreate(self.files, name)
    IN  [self EXCEPT
            !.files = DropWriter(created, self.cur_file),
            !.cur_file = Some([name |-> name,
                               buffer |-> TextOf(<<MafVersionLine>>)]),
            !.cur_length = Some(0),
            !.cur_chrom = Some(chrom)]

\* MAFSplit::output_block; the value is Ok(self after the call) or the panic
\* of cur_file.as_mut().unwrap().
output_block(self, block, overflow_checks) ==
    LET aligned == aligned_entries(block)
        ref_aln == aligned[1]
        chr == chrom_part(ref_aln.seq)
        too_long == self.cur_length[1] + ref_aln.aligned_length
        switch == \/ self.cur_chrom = None
                  \/ self.cur_length = None
                  \/ chr # self.cur_chrom[1]
                  \/ WrapU64(too_long) > self.max_length
        opened == IF switch THEN new_file(self, chr, ref_aln.start) ELSE self
        counted == IF Len(aligned) = 0 THEN self
                   ELSE [opened EXCEPT !.cur_length =
                            Some(WrapU64(@[1] + ref_aln.aligned_length))]
        overflow == /\ Len(aligned) > 0
                    /\ \/ /\ self.cur_chrom # None
                          /\ self.cur_length # None
                          /\ chr = self.cur_chrom[1]
                          /\ too_long > U64Max
                       \/ opened.cur_length[1] + ref_aln.aligned_length > U64Max
    IN  IF overflow_checks /\ overflow
        THEN Panic("attempt to add with overflow")
        ELSE IF counted.cur_file = None
        THEN Panic("called Option::unwrap() on a None value")
        ELSE Ok([counted EXCEPT !.cur_file =
                    Some([@[1] EXCEPT !.buffer = @ \o TextOf(DisplayBlock(block))])])

\* The splitter goes out of scope: its BufWriter is dropped.
DropSplit(self) ==
    [self EXCEPT !.files = DropWriter(self.files, self.cur_file),
                 !.cur_file = None]

(***************************************************************************)
(* The five drivers (coverage.rs:156-172, filter.rs:108-123,               *)
(* dup_blocks.rs:129-162, split.rs:59-70).  A driver is the record of its  *)
(* name, its status ("running", "returned": it returned () to its caller,  *)
(* "panicked"), the lines it wrote to `output`, and its own state: the     *)
(* MAFCoverage, the ranges, the ConsensusMode, or the MAFSplit.  Each      *)
(* operator below is one turn of the driver's loop on the value `item`     *)
(* that next_maf_item returned, and what follows the loop when the turn    *)
(* ends it: `while let Ok(item)` ends the loop on any Err.                 *)
(***************************************************************************)
Driver(name, state) ==
    [name |-> name, status |-> "running", output |-> <<>>, state |-> state]

Aborted(d) == [d EXCEPT !.status = "panicked"]
Finished(d) == [d EXCEPT !.status = "returned"]

\* The Comment arm that writes the text without a '#'.
WriteComment_without_hash(d, comment) == [d EXCEPT !.output = @ \o <<comment>>]

\* write!(output, "#{}\n", comment)
WriteComment(d, comment) == [d EXCEPT !.output = @ \o <<(<<"#">> \o comment)>>]

\* The lines of the blocks, one Display after the other.
RECURSIVE DisplayBlocks(_)
DisplayBlocks(blocks) ==
    IF Len(blocks) = 0 THEN <<>>
    ELSE DisplayBlock(Head(blocks)) \o DisplayBlocks(Tail(blocks))

\* coverage: `order` is the order in which print iterates the coverage map.
coverage(d, item, order, overflow_checks) ==
    CASE item.tag = "Panic" -> Aborted(d)
      [] item.tag = "Err" ->
            LET printed == coverage_print(d.state, order, overflow_checks)
            IN  IF printed.panic THEN Aborted(d)
                ELSE [Finished(d) EXCEPT !.output = @ \o printed.val]
      [] item.tag = "Block" ->
            LET added == add_block(d.state, item.block, overflow_checks)
            IN  IF added.panic THEN Aborted(d)
                ELSE [d EXCEPT !.state = added.self]
      [] OTHER -> d

\* filter: d.state is the set of ranges parse_bed returned.
filter(d, item) ==
    CASE item.tag = "Panic" -> Aborted(d)
      [] item.tag = "Err" -> Finished(d)
      [] item.tag = "Comment" -> WriteComment(d, item.text)
      [] item.tag = "Block" ->
            LET filtered == filter_block(item.block, d.state)
            IN  IF filtered.panic THEN Aborted(d)
                ELSE [d EXCEPT !.output = @ \o DisplayBlocks(filtered.val)]

\* output_merged_consensus_blocks: d.state is the mode, `order` the order in
\* which merge_dup_entries iterates dup_entries.  "{}\n" writes the block
\* and one more '\n'.
output_merged_consensus_blocks(d, item, order) ==
    CASE item.tag = "Panic" -> Aborted(d)
      [] item.tag = "Err" -> Finished(d)
      [] item.tag = "Comment" -> WriteComment(d, item.text)
      [] item.tag = "Block" ->
            LET merged_block == MergedBlock(item.block, order, d.state)
            IN  IF merged_block.panic THEN Aborted(d)
                ELSE [d EXCEPT !.output =
                         @ \o DisplayBlock(merged_block.val) \o << <<>> >>]

\* output_dup_blocks
output_dup_blocks(d, item) ==
    CASE item.tag = "Panic" -> Aborted(d)
      [] item.tag = "Err" -> Finished(d)
      [] item.tag = "Comment" -> WriteComment(d, item.text)
      [] item.tag = "Block" ->
            IF block_contains_dups(item.block)
            THEN [d EXCEPT !.output = @ \o DisplayBlock(item.block)]
            ELSE d

\* split_maf: d.state is the splitter.
split_maf(d, item, overflow_checks) ==
    CASE item.tag = "Panic" -> Aborted([d EXCEPT !.state = DropSplit(@)])
      [] item.tag = "Err" -> Finished([d EXCEPT !.state = DropSplit(@)])
      [] item.tag = "Block" ->
            LET written == output_block(d.state, item.block, overflow_checks)
            IN  IF written.panic THEN Aborted([d EXCEPT !.state = DropSplit(@)])
                ELSE [d EXCEPT !.state = written.val]
      [] OTHER -> d

(***************************************************************************)
(* Input lines of the model.                                               *)
(***************************************************************************)
Line(toks) == JoinWith(toks, <<" ">>)

SeqA == <<"A", ".", "c">>
SeqB == <<"B", ".", "d">>

LEmpty == <<>>
LBlank == <<" ">>
LComment == <<"#", "#", "m">>
LHeader == <<"a">>
LSA == Line(<< <<"s">>, SeqA, <<"1">>, <<"2">>, <<"+">>, <<"9">>, <<"A", "C">> >>)
LSB == Line(<< <<"s">>, SeqB, <<"0">>, <<"1">>, <<"-">>, <<"5">>, <<"-", "G">> >>)
LIA == Line(<< <<"i">>, SeqA, <<"N">>, <<"0">>, <<"C">>, <<"3">> >>)
LEA == Line(<< <<"e">>, SeqA, <<"2">>, <<"3">>, <<"+">>, <<"9">>, <<"I">> >>)
LQA == Line(<< <<"q">>, SeqA, <<"9">> >>)
LShortS == Line(<< <<"s">>, SeqA, <<"1">> >>)

StreamLines == {LEmpty, LBlank, LComment, LHeader, LSA, LSB, LIA, LEA, LQA, LShortS}

\* All sequences over S of length at most n.
RECURSIVE SeqsUpTo(_, _)
SeqsUpTo(S, n) ==
    IF n = 0 THEN {<<>>}
    ELSE LET shorter == SeqsUpTo(S, n - 1)
         IN  shorter \cup {Append(t, x) : t \in {u \in shorter : Len(u) = n - 1}, x \in S}

(***************************************************************************)
(* The parser as a state machine: a caller that calls next_maf_item on the *)
(* stream again and again, and may render a block it got.                  *)
(***************************************************************************)
\* The state of the parts a specification does not exercise.
ParserIdle ==
    /\ input = <<>>
    /\ consumed = <<>>
    /\ result = ItemNone
    /\ rendered = None

TallyIdle ==
    /\ counts = BaseCounts(0, 0, 0, 0)
    /\ tie = BaseCounts(0, 0, 0, 0)
    /\ called = "none"
    /\ base = ""

MergeIdle ==
    /\ merge_block = MAFBlock(<<>>, <<>>)
    /\ merge_mode = "Mask"
    /\ merge_out = None

\* No add_block made on the MAFCoverage self.
NoCall(self) ==
    [block |-> MAFBlock(<<>>, <<>>), before |-> EmptyMap,
     result |-> [panic |-> FALSE, self |-> self, probes |-> <<>>]]

CovIdle ==
    /\ maf_coverage = MAFCoverageNew(<<>>, None)
    /\ cov_call = NoCall(maf_coverage)
    /\ cov_calls = 0
    /\ cov_returned = FALSE
    /\ build_overflow_checks = FALSE

\* No driver runs.
NoItem == [item |-> ItemNone, used |-> 0]

DrvIdle ==
    /\ driver = [name |-> "none", status |-> "idle", output |-> <<>>, state |-> None]
    /\ drv_last = NoItem

\* No call made on the column filter or the ranges.
NoFilterCall == [op |-> "none", arg |-> <<>>, result |-> Ok(<<>>)]

FilIdle ==
    /\ fil_block = MAFBlock(<<>>, <<>>)
    /\ fil_ranges = {}
    /\ fil_call = NoFilterCall

Init ==
    /\ FilIdle
    /\ input \in SeqsUpTo(StreamLines, MaxLines)
    /\ consumed = <<>>
    /\ result = ItemNone
    /\ rendered = None
    /\ TallyIdle
    /\ MergeIdle
    /\ CovIdle
    /\ DrvIdle

\* One call of next_maf_item(input).  After a panic the process is gone.
NextMafItem ==
    /\ result.tag # "Panic"
    /\ LET r == next_maf_item(input)
       IN  /\ result' = r.item
           /\ consumed' = SubSeq(input, 1, r.used)
           /\ input' = SubSeq(input, r.used + 1, Len(input))
    /\ rendered' = None
    /\ UNCHANGED <<tally_vars, merge_vars, cov_vars, drv_vars, fil_vars>>

\* block.to_string() on the block the last call returned.
DisplayItem ==
    /\ result.tag = "Block"
    /\ rendered = None
    /\ rendered' = Some(DisplayBlock(result.block))
    /\ UNCHANGED <<input, consumed, result>>
    /\ UNCHANGED <<tally_vars, merge_vars, cov_vars, drv_vars, fil_vars>>

Next == NextMafItem \/ DisplayItem

Spec == Init /\ [][Next]_vars

(***************************************************************************)
(* The round trip of one block text: the stream holds exactly one block    *)
(* text, a header, body lines and the blank line that ends the paragraph.  *)
(***************************************************************************)
LSA0 == Line(<< <<"s">>, SeqA, <<"0", "1">>, <<"2">>, <<"+">>, <<"9">>, <<"A", "C">> >>)
LIA2 == Line(<< <<"i">>, SeqA, <<"I">>, <<"1", "0">>, <<"n">>, <<"0">> >>)
LIB == Line(<< <<"i">>, SeqB, <<"M">>, <<"2">>, <<"T">>, <<"1">> >>)
LEB == Line(<< <<"e">>, SeqB, <<"0">>, <<"1">>, <<"-">>, <<"5">>, <<"C">> >>)
LEn == Line(<< <<"e">>, SeqB, <<"0">>, <<"1">>, <<"-">>, <<"5">>, <<"n">> >>)

BodyLines == {LSA, LSA0, LSB, LIA, LIA2, LIB, LEA, LEB, LEn}

MetaJW == <<"j", "=", "w">>
MetaKV == <<"k", "=", "v">>
MetaKX == <<"k", "=", "x">>
MetaKVW == <<"k", "=", "v", "=", "w">>

Headers == {Line(<< <<"a">> >>),
            Line(<< <<"a">>, MetaJW >>),
            Line(<< <<"a">>, MetaJW, MetaKV >>),
            Line(<< <<"a">>, MetaKV, MetaJW >>),
            Line(<< <<"a">>, MetaKV, MetaKX >>),
            Line(<< <<"a">>, MetaKVW >>),
            Line(<< <<"a">>, <<"k">> >>)}

InitRT ==
    /\ FilIdle
    /\ input \in {<<h>> \o body \o <<LEmpty>> :
                     h \in Headers, body \in SeqsUpTo(BodyLines, MaxBody)}
    /\ consumed = <<>>
    /\ result = ItemNone
    /\ rendered = None
    /\ TallyIdle
    /\ MergeIdle
    /\ CovIdle
    /\ DrvIdle

SpecRT == InitRT /\ [][Next]_vars

(***************************************************************************)
(* The grammar of a block text (spec section 6), stated on the characters  *)
(* of the text and not through the parser.                                 *)
(***************************************************************************)
\* The fields of a line whose fields are separated by single spaces.
Words(line) == SplitOn(line, {" "})

SingleSpaced(line) ==
    /\ \A i \in 1..Len(line) : line[i] \notin {"\t", "\r"}
    /\ \A i \in 1..Len(Words(line)) : Len(Words(line)[i]) > 0

IsNumber(tok) == Len(tok) > 0 /\ \A i \in 1..Len(tok) : IsDigit(tok[i])

\* A decimal number without sign or leading zero that fits the integer type.
IsCanonicalNumber(tok) ==
    IsNumber(tok) /\ (Len(tok) = 1 \/ tok[1] # "0") /\ DecVal(tok) <= U64Max

IsStrandTok(tok) == tok \in {<<"+">>, <<"-">>}
IsAlignedStatusTok(tok) == tok \in {<<"C">>, <<"I">>, <<"N">>, <<"n">>, <<"M">>, <<"T">>}
IsUnalignedStatusTok(tok) == tok \in {<<"C">>, <<"I">>, <<"M">>, <<"n">>, <<"T">>}

IsSLine(line) ==
    LET w == Words(line)
    IN  /\ SingleSpaced(line) /\ Len(w) = 7 /\ w[1] = <<"s">>
        /\ IsNumber(w[3]) /\ IsNumber(w[4]) /\ IsStrandTok(w[5]) /\ IsNumber(w[6])

IsILine(line) ==
    LET w == Words(line)
    IN  /\ SingleSpaced(line) /\ Len(w) = 6 /\ w[1] = <<"i">>
        /\ IsAlignedStatusTok(w[3]) /\ IsNumber(w[4])
        /\ IsAlignedStatusTok(w[5]) /\ IsNumber(w[6])

IsELine(line) ==
    LET w == Words(line)
    IN  /\ SingleSpaced(line) /\ Len(w) = 7 /\ w[1] = <<"e">>
        /\ IsNumber(w[3]) /\ IsNumber(w[4]) /\ IsStrandTok(w[5]) /\ IsNumber(w[6])
        /\ IsUnalignedStatusTok(w[7])

\* The key of a key=value token: the characters before the first '='.
MetaKey(tok) == SplitOn(tok, {"="})[1]

IsHeaderLine(line) ==
    LET w == Words(line)
    IN  /\ SingleSpaced(line) /\ w[1] = <<"a">>
        /\ \A i \in 2..Len(w) : \E k \in 1..Len(w[i]) : w[i][k] = "="
        /\ \A i \in 2..Len(w) : \A j \in (i + 1)..Len(w) :
              ~StrLess(MetaKey(w[j]), MetaKey(w[i]))

\* A syntactically valid block text: header, s/i/e lines, blank line.
ValidBlockText(x) ==
    /\ Len(x) >= 2
    /\ IsHeaderLine(x[1])
    /\ x[Len(x)] = <<>>
    /\ \A i \in 2..(Len(x) - 1) : IsSLine(x[i]) \/ IsILine(x[i]) \/ IsELine(x[i])

\* The numeric fields of a body line: fields 3, 4, 6 of s and e, 4 and 6 of i.
NumericFields(line) ==
    LET w == Words(line)
    IN  IF w[1] = <<"i">> THEN {w[4], w[6]} ELSE {w[3], w[4], w[6]}

\* A valid block text in the form Display writes: one '=' in each metadata
\* token, keys strictly ascending, numbers without leading zeros, and every
\* i line directly after an s line.
CanonicalBlockText(x) ==
    /\ ValidBlockText(x)
    /\ LET w == Words(x[1])
       IN  /\ \A i \in 2..Len(w) : Len(SplitOn(w[i], {"="})) = 2
           /\ \A i \in 2..Len(w) : \A j \in (i + 1)..Len(w) :
                 StrLess(MetaKey(w[i]), MetaKey(w[j]))
    /\ \A i \in 2..(Len(x) - 1) :
          /\ \A t \in NumericFields(x[i]) : IsCanonicalNumber(t)
          /\ IsILine(x[i]) => (i > 2 /\ IsSLine(x[i - 1]))

(***************************************************************************)
(* C1 (as amended).  Round trip: for every block text in canonical form    *)
(* (valid, one '=' per metadata token, keys strictly ascending, numbers    *)
(* without leading zeros, each i line directly after an s line), the lines *)
(* Display writes for the block parse_block returns are the text itself.   *)
(***************************************************************************)
C1_RoundTripCanonical ==
    (rendered # None /\ CanonicalBlockText(consumed)) => rendered[1] = consumed

\* C1 witness: a canonical text with metadata and an s, an i and an e line
\* was parsed and rendered.
C1_Witness ==
    /\ rendered # None
    /\ CanonicalBlockText(consumed)
    /\ Len(Words(consumed[1])) = 3
    /\ \E i \in 2..(Len(consumed) - 1) : IsILine(consumed[i])
    /\ \E i \in 2..(Len(consumed) - 1) : IsELine(consumed[i])

(***************************************************************************)
(* C1 (as claimed).  Round trip for every syntactically valid block text:  *)
(* rendering the parsed block reproduces the text exactly.                 *)
(***************************************************************************)
C1_RoundTripValid ==
    (rendered # None /\ ValidBlockText(consumed)) => rendered[1] = consumed

(***************************************************************************)
(* C3.  next_maf_item always ends by returning an item or a MAFParseError: *)
(* no input makes the parser abort the process.                            *)
(***************************************************************************)
C3_NeverAborts == result.tag # "Panic"

(***************************************************************************)
(* C4.  A well-formed i line that follows an Aligned entry of the same seq *)
(* sets that entry's context to the decoded statuses and counts and leaves *)
(* every other entry, the entry count and the metadata as they were; after *)
(* an Unaligned entry, after an Aligned entry of another seq, or as first  *)
(* body line it yields UnexpectedLine.                                     *)
(***************************************************************************)
\* AlignedContextStatus of a status character (lib.rs:72-95).
StatusOfChar(tok) ==
    CASE tok = <<"C">> -> "Contiguous"
      [] tok = <<"I">> -> "Insertion"
      [] tok = <<"N">> -> "FirstInSequence"
      [] tok = <<"n">> -> "FirstInSequenceBridged"
      [] tok = <<"M">> -> "MissingData"
      [] tok = <<"T">> -> "AlreadyUsed"

\* The context an i line states.
ContextOfILine(line) ==
    LET w == Words(line)
    IN  [left_status |-> StatusOfChar(w[3]), left_count |-> DecVal(w[4]),
         right_status |-> StatusOfChar(w[5]), right_count |-> DecVal(w[6])]

\* Index of the first line of c that is not blank (Len(c) + 1 if none).
FirstNonBlank(c) ==
    IF \A i \in 1..Len(c) : TrimIsEmpty(c[i]) THEN Len(c) + 1
    ELSE CHOOSE i \in 1..Len(c) :
            ~TrimIsEmpty(c[i]) /\ \A j \in 1..(i - 1) : TrimIsEmpty(c[j])

\* The last line read by the call was an i line of a block's body.
LastReadIsILine ==
    /\ result.tag \in {"Block", "Err"}
    /\ FirstNonBlank(consumed) < Len(consumed)
    /\ consumed[FirstNonBlank(consumed)][1] = "a"
    /\ IsILine(consumed[Len(consumed)])

C4_ILineAttaches ==
    LastReadIsILine =>
        LET h == FirstNonBlank(consumed)
            n == Len(consumed)
            before == parse_block(consumed[h], SubSeq(consumed, h + 1, n - 1)).res
            es == before.val.entries
            m == Len(es)
        IN  /\ before.ok
            /\ IF m > 0 /\ es[m].kind = "Aligned" /\ es[m].seq = Words(consumed[n])[2]
               THEN /\ result.tag = "Block"
                    /\ result.block.metadata = before.val.metadata
                    /\ result.block.entries =
                          [es EXCEPT ![m].context = Some(ContextOfILine(consumed[n]))]
               ELSE /\ result.tag = "Err"
                    /\ result.err.kind = "UnexpectedLine"

\* C4 witness: an i line attached to the second of two Aligned entries.
C4_Witness ==
    /\ LastReadIsILine
    /\ result.tag = "Block"
    /\ Len(result.block.entries) = 2
    /\ result.block.entries[1].kind = "Aligned"
    /\ result.block.entries[1].context = None
    /\ result.block.entries[2].context # None

(***************************************************************************)
(* The base calls on every pair of tallies with counts up to MaxCount.     *)
(***************************************************************************)
Tallies == {BaseCounts(a, c, g, t) : a \in 0..MaxCount, c \in 0..MaxCount,
                                     g \in 0..MaxCount, t \in 0..MaxCount}

InitTally ==
    /\ FilIdle
    /\ ParserIdle
    /\ MergeIdle
    /\ CovIdle
    /\ DrvIdle
    /\ counts \in Tallies
    /\ tie \in Tallies
    /\ called = "none"
    /\ base = ""

CallUnanimousBase ==
    /\ called = "none"
    /\ called' = "unanimous_base"
    /\ base' = unanimous_base(counts)
    /\ UNCHANGED <<counts, tie>>
    /\ UNCHANGED <<parser_vars, merge_vars, cov_vars, drv_vars, fil_vars>>

CallConsensusBase ==
    /\ called = "none"
    /\ called' = "consensus_base"
    /\ base' = consensus_base(counts, tie)
    /\ UNCHANGED <<counts, tie>>
    /\ UNCHANGED <<parser_vars, merge_vars, cov_vars, drv_vars, fil_vars>>

NextTally == CallUnanimousBase \/ CallConsensusBase

SpecTally == InitTally /\ [][NextTally]_vars

\* The letters of a tally and the count of each.
Letters == {"A", "C", "G", "T"}

CountOf(bc, l) ==
    CASE l = "A" -> bc.a [] l = "C" -> bc.c [] l = "G" -> bc.g [] l = "T" -> bc.t

(***************************************************************************)
(* C8.  unanimous_base returns the letter whose count is the only non-zero *)
(* one, and N when no count or more than one count is non-zero.            *)
(***************************************************************************)
C8_Unanimous ==
    called = "unanimous_base" =>
        LET nonzero == {l \in Letters : CountOf(counts, l) > 0}
        IN  IF Cardinality(nonzero) = 1 THEN base \in nonzero ELSE base = "N"

\* C8 witness: a call on a tally whose only non-zero count is that of T.
C8_Witness ==
    /\ called = "unanimous_base"
    /\ counts = BaseCounts(0, 0, 0, 2)
    /\ base = "T"

(***************************************************************************)
(* C9.  consensus_base(s, b) is the reference rule: M is the set of        *)
(* letters with maximal count in s; a single letter of M is returned;      *)
(* otherwise M' is the set of letters of M whose count in b is maximal     *)
(* among M, and the result is the letter of M' if it is unique, else N.    *)
(***************************************************************************)
MaxLetters(bc, among) ==
    {l \in among : \A k \in among : CountOf(bc, k) <= CountOf(bc, l)}

ReferenceConsensus(s, b) ==
    LET M == MaxLetters(s, Letters)
        M2 == MaxLetters(b, M)
    IN  IF Cardinality(M) = 1 THEN CHOOSE l \in M : TRUE
        ELSE IF Cardinality(M2) = 1 THEN CHOOSE l \in M2 : TRUE
        ELSE "N"

C9_ConsensusIsReference ==
    called = "consensus_base" => base = ReferenceConsensus(counts, tie)

\* C9 witness: G and T tie in the species tally, the block tally has more A
\* than G and more G than T, and the call returns G.
C9_Witness ==
    /\ called = "consensus_base"
    /\ counts = BaseCounts(0, 1, 2, 2)
    /\ tie = BaseCounts(2, 0, 1, 0)
    /\ base = "G"

(***************************************************************************)
(* The merge of one block (the Block arm of                                *)
(* output_merged_consensus_blocks), on every block of up to MaxEntries     *)
(* entries, in every mode and every iteration order of the duplicates.     *)
(***************************************************************************)
SeqAd == <<"A", ".", "d">>
SeqC == <<"C">>

MergeEntries ==
    { AlignedEntry(SeqA, 1, 2, "Positive", 9, <<"A", "C">>, None),
      AlignedEntry(SeqA, 4, 2, "Positive", 9, <<"A", "G">>, None),
      AlignedEntry(SeqAd, 0, 1, "Negative", 5, <<"-", "c">>, None),
      AlignedEntry(SeqA, 6, 1, "Positive", 9, <<"T">>, None),
      AlignedEntry(SeqB, 0, 1, "Negative", 5, <<"-", "G">>,
                   Some([left_status |-> "Insertion", left_count |-> 1,
                         right_status |-> "Contiguous", right_count |-> 0])),
      AlignedEntry(SeqB, 3, 2, "Positive", 5, <<"T", "N">>, None),
      UnalignedEntry(SeqC, 2, 3, "Positive", 9, "Insertion") }

InitMerge ==
    /\ FilIdle
    /\ ParserIdle
    /\ TallyIdle
    /\ CovIdle
    /\ DrvIdle
    /\ merge_block \in {MAFBlock(<<>>, es) : es \in SeqsUpTo(MergeEntries, MaxEntries)}
    /\ merge_mode \in {"Unanimity", "Consensus", "Mask"}
    /\ merge_out = None

MergeBlock ==
    /\ merge_out = None
    /\ \E order \in IterationOrders(DOMAIN dup_entries_from_block(merge_block)) :
          merge_out' = Some(MergedBlock(merge_block, order, merge_mode))
    /\ UNCHANGED <<merge_block, merge_mode>>
    /\ UNCHANGED <<parser_vars, tally_vars, cov_vars, drv_vars, fil_vars>>

NextMerge == MergeBlock

SpecMerge == InitMerge /\ [][NextMerge]_vars

\* The entries of species g among the entries es.
EntriesOf(es, g) ==
    LET OfG(e) == IsAligned(e) /\ species_of(e.seq) = g
    IN  SelectSeq(es, OfG)

SameCoordinates(e, o) ==
    /\ e.seq = o.seq
    /\ e.start = o.start
    /\ e.aligned_length = o.aligned_length
    /\ e.strand = o.strand
    /\ e.sequence_size = o.sequence_size

(***************************************************************************)
(* C10.  In Mask mode the written block holds, for every duplicated genome *)
(* of the input block, exactly one entry; every column of it is N and its  *)
(* seq, start, aligned_length, strand and sequence_size are those of one   *)
(* of that genome's entries in the input block.                            *)
(***************************************************************************)
C10_MaskAllN ==
    (merge_mode = "Mask" /\ merge_out # None /\ merge_out[1].ok) =>
        \A g \in DOMAIN dup_entries_from_block(merge_block) :
            LET out == EntriesOf(merge_out[1].val.entries, g)
                orig == EntriesOf(merge_block.entries, g)
            IN  /\ Len(out) = 1
                /\ \A i \in 1..Len(out[1].alignment) : out[1].alignment[i] = "N"
                /\ \E k \in 1..Len(orig) : SameCoordinates(out[1], orig[k])

\* C10 witness: a Mask merge of a block in which genome A has entries on two
\* sequences, one of them with a gap column, and genome B is duplicated too.
C10_Witness ==
    /\ merge_mode = "Mask"
    /\ merge_out # None
    /\ merge_out[1].ok
    /\ DOMAIN dup_entries_from_block(merge_block) = {<<"A">>, <<"B">>}
    /\ merge_block.entries[1].seq = SeqAd
    /\ \E i \in 1..Len(merge_out[1].val.entries) :
          /\ merge_out[1].val.entries[i].seq = SeqAd
          /\ merge_out[1].val.entries[i].alignment = <<"N", "N">>

(***************************************************************************)
(* Coverage as a state machine: a MAFCoverage built by MAFCoverage::new    *)
(* for reference genome A, with or without ranges, to which blocks are     *)
(* added one after the other.  cov_block, cov_before and cov_probes record *)
(* the last call: its block, the coverage map before it, and the columns   *)
(* of the reference entries it did not skip as gaps.                       *)
(***************************************************************************)
GenomeA == <<"A">>
GenomeB == <<"B">>
ChromC == <<"c">>
ChromD == <<"d">>

CovEntries ==
    { AlignedEntry(SeqAd, 1, 2, "Positive", 9, <<"A", "-", "C">>, None),
      AlignedEntry(SeqA, 4, 1, "Negative", 5, <<"A", "C", "G">>, None),
      AlignedEntry(SeqB, 0, 2, "Positive", 5, <<"T", "T", "-">>, None),
      AlignedEntry(SeqB, 2, 3, "Negative", 5, <<"t", "R", "a">>, None),
      AlignedEntry(SeqB, 3, 1, "Positive", 5, <<"G">>, None) }

CovBlocks == {MAFBlock(<<>>, es) : es \in SeqsUpTo(CovEntries, MaxCovEntries)}

CovRanges ==
    { None,
      Some({Range(ChromC, 0, 2), Range(ChromD, 2, 5)}) }

InitCov ==
    /\ FilIdle
    /\ ParserIdle
    /\ DrvIdle
    /\ TallyIdle
    /\ MergeIdle
    /\ maf_coverage \in {MAFCoverageNew(GenomeA, ranges) : ranges \in CovRanges}
    /\ build_overflow_checks \in BOOLEAN
    /\ cov_call = NoCall(maf_coverage)
    /\ cov_calls = 0
    /\ cov_returned = FALSE

\* maf_coverage.add_block(block) in the loop of coverage.
AddBlock ==
    /\ ~cov_call.result.panic
    /\ ~cov_returned
    /\ cov_calls < MaxCovBlocks
    /\ \E b \in CovBlocks :
          cov_call' = [block |-> b, before |-> maf_coverage.coverage,
                       result |-> add_block(maf_coverage, b, build_overflow_checks)]
    /\ maf_coverage' = cov_call'.result.self
    /\ cov_returned' = ~cov_call'.result.panic
    /\ cov_calls' = cov_calls + 1
    /\ UNCHANGED build_overflow_checks
    /\ UNCHANGED <<parser_vars, tally_vars, merge_vars, drv_vars, fil_vars>>

\* The loop goes on to its next item: the block added is gone.
NextItem ==
    /\ cov_returned
    /\ cov_returned' = FALSE
    /\ cov_call' = NoCall(maf_coverage)
    /\ UNCHANGED <<maf_coverage, cov_calls, build_overflow_checks>>
    /\ UNCHANGED <<parser_vars, tally_vars, merge_vars, drv_vars, fil_vars>>

NextCov == AddBlock \/ NextItem

SpecCov == InitCov /\ [][NextCov]_vars

\* The last call: its block, the coverage map before it, and the reference
\* columns it did not skip as gaps.
cov_block == cov_call.block
cov_before == cov_call.before
cov_probes == cov_call.result.probes

\* What the last call added to the coverage of genome x.
CoverageOf(map, x) == IF x \in DOMAIN map THEN map[x] ELSE 0

Increase(x) == CoverageOf(maf_coverage.coverage, x) - CoverageOf(cov_before, x)

Genomes == {GenomeA, GenomeB}

\* Column i of some entry of genome g in the last block is not a gap.
NonGapAt(g, i) ==
    LET es == EntriesOf(cov_block.entries, g)
    IN  \E k \in 1..Len(es) : i <= Len(es[k].alignment) /\ es[k].alignment[i] # "-"

\* Every entry of the last block has n columns.
HasColumns(n) ==
    \A k \in 1..Len(cov_block.entries) : Len(cov_block.entries[k].alignment) = n

Returned == cov_returned

CommonAlignedColumns(e, x) ==
    LET es == EntriesOf(cov_block.entries, x)
    IN  {i \in 1..Len(e.alignment) :
            /\ aligned_base(e.alignment[i])
            /\ \E k \in 1..Len(es) :
                  i <= Len(es[k].alignment) /\ aligned_base(es[k].alignment[i])}

ReferencePosition(e, i) ==
    LET o == Cardinality({h \in 1..(i - 1) : e.alignment[h] # "-"})
    IN  IF e.strand = "Positive" THEN e.start + o ELSE e.sequence_size - e.start - o

\* Position pos of sequence chrom lies in a configured region.
InSomeRegion(chrom, pos) ==
    \E r \in maf_coverage.ranges[1] :
        r.seq = chrom /\ r.start <= pos /\ pos < r.end

\* The columns of reference entry e whose position lies in a region and in
\* which some entry of genome x is not a gap.
RegionColumns(e, x) ==
    {i \in 1..Len(e.alignment) :
        /\ e.alignment[i] # "-"
        /\ InSomeRegion(chrom_of(e.seq), ReferencePosition(e, i))
        /\ NonGapAt(x, i)}

C7_RefPositionFormula ==
    \A k \in 1..Len(cov_probes) :
        LET p == cov_probes[k]
            e == p.entry
            o == p.ref_offset
        IN  /\ e.alignment[p.i] # "-"
            /\ o = Cardinality({h \in 1..(p.i - 1) : e.alignment[h] # "-"})
            /\ e.strand = "Positive" => p.ref_pos = e.start + o
            /\ (e.strand = "Negative" /\ e.start + e.aligned_length <= e.sequence_size)
                  => /\ e.sequence_size - e.start - o >= 0
                     /\ p.ref_pos = e.sequence_size - e.start - o

(***************************************************************************)
(* The drivers on input streams.  A driver of Drivers is started on a      *)
(* stream of at most MaxLines lines; each action is one turn of the loop   *)
(* of its driver: the call of next_maf_item, which takes its lines off the *)
(* stream, and all the driver does with the item.                          *)
(***************************************************************************)
DrvLines == {LComment, LHeader, LSA, LSA0, LSB, LEmpty}

DrvRanges == {Range(ChromC, 0, 2), Range(ChromD, 2, 5)}

InitDrv ==
    /\ FilIdle
    /\ input \in SeqsUpTo(DrvLines, MaxLines)
    /\ consumed = <<>>
    /\ result = ItemNone
    /\ rendered = None
    /\ TallyIdle
    /\ MergeIdle
    /\ CovIdle
    /\ \/ driver = Driver("coverage", MAFCoverageNew(GenomeA, None))
       \/ driver = Driver("filter", DrvRanges)
       \/ \E mode \in {"Unanimity", "Consensus", "Mask"} :
             driver = Driver("output_merged_consensus_blocks", mode)
       \/ driver = Driver("output_dup_blocks", None)
       \/ driver = Driver("split_maf", MAFSplitNew(SplitMaxLength))
    /\ drv_last = NoItem

\* let item = next_maf_item(input)
ReadItem ==
    /\ drv_last' = next_maf_item(input)
    /\ input' = SubSeq(input, drv_last'.used + 1, Len(input))
    /\ UNCHANGED <<consumed, result, rendered>>
    /\ UNCHANGED <<tally_vars, merge_vars, cov_vars, fil_vars>>

CoverageLoop ==
    /\ driver.name = "coverage"
    /\ driver.status = "running"
    /\ ReadItem
    /\ \E order \in IF drv_last'.item.tag = "Err"
                    THEN IterationOrders(DOMAIN driver.state.coverage)
                    ELSE {<<>>} :
          driver' = coverage(driver, drv_last'.item, order, build_overflow_checks)

FilterLoop ==
    /\ driver.name = "filter"
    /\ driver.status = "running"
    /\ ReadItem
    /\ driver' = filter(driver, drv_last'.item)

MergeLoop ==
    /\ driver.name = "output_merged_consensus_blocks"
    /\ driver.status = "running"
    /\ ReadItem
    /\ \E order \in IF drv_last'.item.tag = "Block"
                    THEN IterationOrders(DOMAIN dup_entries_from_block(drv_last'.item.block))
                    ELSE {<<>>} :
          driver' = output_merged_consensus_blocks(driver, drv_last'.item, order)

DupLoop ==
    /\ driver.name = "output_dup_blocks"
    /\ driver.status = "running"
    /\ ReadItem
    /\ driver' = output_dup_blocks(driver, drv_last'.item)

SplitLoop ==
    /\ driver.name = "split_maf"
    /\ driver.status = "running"
    /\ ReadItem
    /\ driver' = split_maf(driver, drv_last'.item, build_overflow_checks)

NextDrv == CoverageLoop \/ FilterLoop \/ MergeLoop \/ DupLoop \/ SplitLoop

SpecDrv == InitDrv /\ [][NextDrv]_vars

\* The last call of next_maf_item failed, and not because the input ended.
ParseFailure ==
    /\ drv_last.item.tag = "Err"
    /\ drv_last.item.err.kind # "EOF"

\* C2: when next_maf_item returns a parse failure other than the end of
\* input, no driver returns normally to its caller: the failure does not end
\* the loop as the end of input does, with the lines after it unread.
C2_DriversSurfaceParseFailures ==
    ParseFailure => driver.status # "returned"

(***************************************************************************)
(* C11.  Under SpecMerge: the block written by the merge is the entries of *)
(* the input block that are not Aligned entries of a duplicated genome     *)
(* (Aligned entries of the other genomes and all Unaligned entries),       *)
(* unchanged and in their order, followed by exactly one Aligned entry for *)
(* each duplicated genome; the entries of a duplicated genome are gone     *)
(* from their places.                                                      *)
(***************************************************************************)
DupGenomes == DOMAIN dup_entries_from_block(merge_block)

\* e is not an Aligned entry of a duplicated genome of the input block.
PassesThrough(e) == ~(IsAligned(e) /\ species_of(e.seq) \in DupGenomes)

C11_MergedBlockEntries ==
    (merge_out # None /\ merge_out[1].ok) =>
        LET out == merge_out[1].val.entries
            kept == SelectSeq(merge_block.entries, PassesThrough)
        IN  /\ Len(out) = Len(kept) + Cardinality(DupGenomes)
            /\ SubSeq(out, 1, Len(kept)) = kept
            /\ SelectSeq(out, PassesThrough) = kept
            /\ \A g \in DupGenomes : Len(EntriesOf(out, g)) = 1

\* C11 witness: genome A is duplicated with an entry of genome B and an
\* Unaligned entry between and after its entries; the block written is the
\* B entry, the Unaligned entry and one entry of A.
C11_Witness ==
    /\ merge_out # None
    /\ merge_out[1].ok
    /\ DupGenomes = {<<"A">>}
    /\ Len(merge_block.entries) = 4
    /\ IsAligned(merge_block.entries[1]) /\ merge_block.entries[1].seq = SeqA
    /\ IsAligned(merge_block.entries[2]) /\ merge_block.entries[2].seq = SeqB
    /\ IsAligned(merge_block.entries[3]) /\ merge_block.entries[3].seq = SeqA
    /\ ~IsAligned(merge_block.entries[4])
    /\ Len(merge_out[1].val.entries) = 3
    /\ merge_out[1].val.entries[1] = merge_block.entries[2]
    /\ merge_out[1].val.entries[2] = merge_block.entries[4]
    /\ merge_out[1].val.entries[3].seq = SeqA

(***************************************************************************)
(* filter_entry_columns on its own: an Aligned entry with any alignment of *)
(* at most MaxColumns columns over two bases and the gap, and any Run of   *)
(* columns 0..MaxColumns, inside the alignment or not.                     *)
(***************************************************************************)
FilAlignments == SeqsUpTo({"A", "c", "-"}, MaxColumns)

FilEntryPool ==
    {AlignedEntry(SeqA, 3, NonGapCount(al), "Positive", 9, al, None) : al \in FilAlignments}
    \cup
    {AlignedEntry(SeqB, 2, 1, "Negative", 7, al,
                  Some([left_status |-> "Insertion", left_count |-> 1,
                        right_status |-> "Contiguous", right_count |-> 0])) :
        al \in FilAlignments}

Runs == {Run(start, length) : start \in 0..MaxColumns, length \in 0..MaxColumns}

InitFilterEntry ==
    /\ ParserIdle
    /\ TallyIdle
    /\ MergeIdle
    /\ CovIdle
    /\ DrvIdle
    /\ fil_block \in {MAFBlock(<<>>, <<e>>) : e \in FilEntryPool}
    /\ fil_ranges = {}
    /\ fil_call = NoFilterCall

\* filter_entry_columns(e, run) on an Aligned entry of the block.
FilterEntryColumns ==
    /\ fil_call.op = "none"
    /\ \E k \in 1..Len(aligned_entries(fil_block)), run \in Runs :
          fil_call' = [op |-> "filter_entry_columns",
                       arg |-> [entry |-> aligned_entries(fil_block)[k], run |-> run],
                       result |-> filter_entry_columns(aligned_entries(fil_block)[k], run)]
    /\ UNCHANGED <<fil_block, fil_ranges>>
    /\ UNCHANGED <<parser_vars, tally_vars, merge_vars, cov_vars, drv_vars>>

NextFilterEntry == FilterEntryColumns

SpecFilterEntry == InitFilterEntry /\ [][NextFilterEntry]_vars

\* The columns of alignment, counted from 1, in from..to that hold no gap.
NonGapColumns(alignment, from, to) == {j \in from..to : alignment[j] # "-"}

\* The number of gap columns of alignment from column `from` on, up to the
\* first column that holds no gap or to column `to`.
GapsAhead(alignment, from, to) ==
    IF NonGapColumns(alignment, from, to) = {} THEN to - from + 1
    ELSE (CHOOSE j \in NonGapColumns(alignment, from, to) :
             \A h \in NonGapColumns(alignment, from, to) : j <= h) - from

(***************************************************************************)
(* C12.  For an Aligned entry and a run (start, length) inside its         *)
(* alignment, filter_entry_columns returns an entry whose alignment is     *)
(* alignment[start .. start+length], whose aligned_length is the number of *)
(* non-gap bytes of that slice, whose start is the old start plus the      *)
(* non-gap bytes before the run plus the leading gap bytes inside the run, *)
(* and whose seq, strand and sequence_size are those of the entry.         *)
(***************************************************************************)
C12_FilterEntryColumns ==
    (/\ fil_call.op = "filter_entry_columns"
     /\ fil_call.arg.run.start + fil_call.arg.run.length
            <= Len(fil_call.arg.entry.alignment)) =>
        LET e == fil_call.arg.entry
            start == fil_call.arg.run.start
            length == fil_call.arg.run.length
            out == fil_call.result.val
        IN  /\ fil_call.result.ok
            /\ Len(out.alignment) = length
            /\ \A j \in 1..length : out.alignment[j] = e.alignment[start + j]
            /\ out.aligned_length =
                   Cardinality(NonGapColumns(e.alignment, start + 1, start + length))
            /\ out.start = e.start
                           + Cardinality(NonGapColumns(e.alignment, 1, start))
                           + GapsAhead(e.alignment, start + 1, start + length)
            /\ out.seq = e.seq
            /\ out.strand = e.strand
            /\ out.sequence_size = e.sequence_size

\* C12 witness: the run (1, 3) of "A-cA" on the Negative strand: the slice is
\* "-cA", one base stands before the run and one gap leads it.
C12_Witness ==
    /\ fil_call.op = "filter_entry_columns"
    /\ fil_call.arg.entry.alignment = <<"A", "-", "c", "A">>
    /\ fil_call.arg.entry.strand = "Negative"
    /\ fil_call.arg.run = Run(1, 3)
    /\ fil_call.result.ok
    /\ fil_call.result.val.alignment = <<"-", "c", "A">>
    /\ fil_call.result.val.aligned_length = 2
    /\ fil_call.result.val.start = fil_call.arg.entry.start + 2

(***************************************************************************)
(* get_filtered_columns on its own: a reference entry on A.c at start 3    *)
(* with any alignment of at most MaxColumns columns, and any set of at     *)
(* most MaxRanges ranges of RangePool: ranges on c around the entry, of    *)
(* zero width too, one on the chromosome before c and one on the one after.*)
(***************************************************************************)
ChromB == <<"b">>

RefAlignments == SeqsUpTo({"A", "-"}, MaxColumns)

\* Reference entries: as the format wants them, on the Negative strand, and
\* with an aligned_length that is not the number of bases of the alignment.
RefEntryPool ==
    {AlignedEntry(SeqA, 3, NonGapCount(al), "Positive", 9, al, None) : al \in RefAlignments}
    \cup {AlignedEntry(SeqA, 3, NonGapCount(al), "Negative", 9, al, None) : al \in RefAlignments}
    \cup {AlignedEntry(SeqA, 3, 1, "Positive", 9, al, None) : al \in RefAlignments}

RangePool ==
    {r \in {Range(ChromC, a, b) : a \in 2..5, b \in 2..6} : r.start <= r.end}
    \cup {Range(ChromB, 3, 6), Range(ChromD, 3, 6)}

\* The subsets of S of at most n elements.
SubsetsUpTo(S, n) == {T \in SUBSET S : Cardinality(T) <= n}

InitFilterColumns ==
    /\ ParserIdle
    /\ TallyIdle
    /\ MergeIdle
    /\ CovIdle
    /\ DrvIdle
    /\ fil_block \in {MAFBlock(<<>>, <<e>>) : e \in RefEntryPool}
    /\ fil_ranges \in SubsetsUpTo(RangePool, MaxRanges)
    /\ fil_call = NoFilterCall

\* get_filtered_columns(ref_entry, ranges) on the first Aligned entry.
GetFilteredColumns ==
    /\ fil_call.op = "none"
    /\ Len(aligned_entries(fil_block)) > 0
    /\ fil_call' = [op |-> "get_filtered_columns",
                    arg |-> [ref_entry |-> aligned_entries(fil_block)[1]],
                    result |-> get_filtered_columns(aligned_entries(fil_block)[1],
                                                    fil_ranges)]
    /\ UNCHANGED <<fil_block, fil_ranges>>
    /\ UNCHANGED <<parser_vars, tally_vars, merge_vars, cov_vars, drv_vars>>

NextFilterColumns == GetFilteredColumns

SpecFilterColumns == InitFilterColumns /\ [][NextFilterColumns]_vars


\* The reference coordinate of column i (counted from 1) of entry e: start
\* plus the non-gap bases before the column.
RefCoordinate(e, i) == e.start + Cardinality(NonGapColumns(e.alignment, 1, i - 1))

\* Column i of e holds a base whose coordinate lies in a range of S on the
\* chromosome of e.
ColumnCovered(e, S, i) ==
    /\ e.alignment[i] # "-"
    /\ \E r \in S : /\ r.seq = chrom_part(e.seq)
                    /\ r.start <= RefCoordinate(e, i)
                    /\ RefCoordinate(e, i) < r.end

\* Two ranges overlap: on one sequence, each starts before the other ends (a
\* range of zero width strictly inside another one overlaps it).
RangesOverlap(r, q) == r.seq = q.seq /\ r.start < q.end /\ q.start < r.end

PairwiseNonOverlapping(S) == \A r, q \in S : r # q => ~RangesOverlap(r, q)

\* The columns, counted from 1, of a run.
RunColumns(run) == (run.start + 1)..(run.start + run.length)

(***************************************************************************)
(* C13.  For a Positive-strand reference entry whose aligned_length is its *)
(* number of non-gap columns and a set of pairwise non-overlapping ranges, *)
(* get_filtered_columns returns runs such that a column is in a run iff    *)
(* its reference base is no gap and its coordinate lies in a range on the  *)
(* reference chromosome; the runs are not empty, lie in the alignment, are *)
(* in ascending order and neither touch nor overlap, so that each is a     *)
(* maximal span of such columns.                                           *)
(***************************************************************************)
C13_RunsAreCoveredSpans ==
    (/\ fil_call.op = "get_filtered_columns"
     /\ fil_call.arg.ref_entry.strand = "Positive"
     /\ fil_call.arg.ref_entry.aligned_length
            = NonGapCount(fil_call.arg.ref_entry.alignment)
     /\ PairwiseNonOverlapping(fil_ranges)) =>
        LET e == fil_call.arg.ref_entry
            runs == fil_call.result.val
        IN  /\ fil_call.result.ok
            /\ \A i \in 1..Len(e.alignment) :
                  ColumnCovered(e, fil_ranges, i)
                      <=> \E k \in 1..Len(runs) : i \in RunColumns(runs[k])
            /\ \A k \in 1..Len(runs) :
                  /\ runs[k].length >= 1
                  /\ RunColumns(runs[k]) \subseteq 1..Len(e.alignment)
            /\ \A k \in 1..(Len(runs) - 1) :
                  runs[k].start + runs[k].length < runs[k + 1].start

\* C13 witness: "AA-A" at start 3 with the ranges [3,4) and [4,6) on c: the
\* two ranges touch, the bases 3 and 4 make one run, the gap ends it and the
\* base 5 makes a second run.
C13_Witness ==
    /\ fil_call.op = "get_filtered_columns"
    /\ fil_call.arg.ref_entry.strand = "Positive"
    /\ fil_call.arg.ref_entry.alignment = <<"A", "A", "-", "A">>
    /\ fil_call.arg.ref_entry.aligned_length = 3
    /\ fil_ranges = {Range(ChromC, 3, 4), Range(ChromC, 4, 6)}
    /\ fil_call.result.ok
    /\ fil_call.result.val = <<Run(0, 2), Run(3, 1)>>

(***************************************************************************)
(* filter_block on whole blocks: every block of at most MaxFilEntries      *)
(* entries of FilterEntries (the block of the tests of filter.rs, scaled   *)
(* down, and an Unaligned entry), with every set of at most MaxRanges      *)
(* ranges of FilterRanges.                                                 *)
(***************************************************************************)
FilterEntries ==
    { AlignedEntry(SeqA, 3, 5, "Positive", 9, <<"C", "A", "G", "T", "-", "A">>, None),
      AlignedEntry(SeqB, 2, 6, "Negative", 9, <<"T", "A", "G", "T", "A", "A">>, None),
      AlignedEntry(SeqB, 1, 3, "Negative", 9, <<"G", "-", "A", "A">>, None),
      UnalignedEntry(SeqC, 2, 3, "Positive", 9, "Insertion") }

FilterRanges ==
    {Range(ChromC, 3, 4), Range(ChromC, 6, 8), Range(ChromC, 2, 9), Range(ChromD, 2, 5)}

InitFilter ==
    /\ ParserIdle
    /\ TallyIdle
    /\ MergeIdle
    /\ CovIdle
    /\ DrvIdle
    /\ fil_block \in {MAFBlock(<<>>, es) : es \in SeqsUpTo(FilterEntries, MaxFilEntries)}
    /\ fil_ranges \in SubsetsUpTo(FilterRanges, MaxRanges)
    /\ fil_call = NoFilterCall

\* filter_block(&block, &ranges)
FilterBlock ==
    /\ fil_call.op = "none"
    /\ fil_call' = [op |-> "filter_block",
                    arg |-> [block |-> fil_block],
                    result |-> filter_block(fil_block, fil_ranges)]
    /\ UNCHANGED <<fil_block, fil_ranges>>
    /\ UNCHANGED <<parser_vars, tally_vars, merge_vars, cov_vars, drv_vars>>

NextFilter == FilterBlock

SpecFilter == InitFilter /\ [][NextFilter]_vars

(***************************************************************************)
(* C14.  filter_block on a block whose first Aligned entry is on the       *)
(* Negative strand panics (the strand assertion) and returns no block; on  *)
(* a block without Aligned entry it returns the empty vector.              *)
(***************************************************************************)
C14_NegativeReferenceFails ==
    fil_call.op = "filter_block" =>
        LET aligned == aligned_entries(fil_call.arg.block)
        IN  /\ Len(aligned) = 0 =>
                  fil_call.result.ok /\ fil_call.result.val = <<>>
            /\ (Len(aligned) > 0 /\ aligned[1].strand = "Negative") =>
                  /\ fil_call.result.panic
                  /\ ~fil_call.result.ok
                  /\ "val" \notin DOMAIN fil_call.result

\* C14 witness: an Unaligned entry, then a Negative-strand entry, then the
\* Positive-strand entry, with a range that covers bases of the block: the
\* call panics.
C14_Witness ==
    /\ fil_call.op = "filter_block"
    /\ Len(fil_call.arg.block.entries) = 3
    /\ ~IsAligned(fil_call.arg.block.entries[1])
    /\ fil_call.arg.block.entries[2].strand = "Negative"
    /\ fil_call.arg.block.entries[3].strand = "Positive"
    /\ Range(ChromC, 2, 9) \in fil_ranges
    /\ fil_call.result.panic

(***************************************************************************)
(* The range lookups of lib.rs on their own: every set of at most          *)
(* MaxRanges ranges of RangePool, queried by overlapping_ranges with every *)
(* range of Queries (ranges whose end is below their start too) and by     *)
(* range_contains_pos at every position around the ranges and at the       *)
(* largest u64, in a build with and in a build without overflow checks.    *)
(***************************************************************************)
Queries ==
    {Range(ChromC, a, b) : a \in 2..5, b \in 2..6} \cup {Range(ChromD, 3, 6)}

QueryChroms == {ChromB, ChromC, ChromD}

QueryPositions == (0..7) \cup {U64Max}

InitRanges ==
    /\ ParserIdle
    /\ TallyIdle
    /\ MergeIdle
    /\ DrvIdle
    /\ maf_coverage = MAFCoverageNew(<<>>, None)
    /\ cov_call = NoCall(maf_coverage)
    /\ cov_calls = 0
    /\ cov_returned = FALSE
    /\ build_overflow_checks \in BOOLEAN
    /\ fil_block = MAFBlock(<<>>, <<>>)
    /\ fil_ranges \in SubsetsUpTo(RangePool, MaxRanges)
    /\ fil_call = NoFilterCall

\* overlapping_ranges(&set, &range).collect()
OverlappingRanges ==
    /\ fil_call.op = "none"
    /\ \E range \in Queries :
          fil_call' = [op |-> "overlapping_ranges",
                       arg |-> [range |-> range],
                       result |-> overlapping_ranges(fil_ranges, range)]
    /\ UNCHANGED <<fil_block, fil_ranges>>
    /\ UNCHANGED <<parser_vars, tally_vars, merge_vars, cov_vars, drv_vars>>

\* range_contains_pos(&set, chrom, position)
RangeContainsPos ==
    /\ fil_call.op = "none"
    /\ \E chrom \in QueryChroms, position \in QueryPositions :
          fil_call' = [op |-> "range_contains_pos",
                       arg |-> [chrom |-> chrom, position |-> position],
                       result |-> range_contains_pos(fil_ranges, chrom, position,
                                                     build_overflow_checks)]
    /\ UNCHANGED <<fil_block, fil_ranges>>
    /\ UNCHANGED <<parser_vars, tally_vars, merge_vars, cov_vars, drv_vars>>

NextRanges == OverlappingRanges \/ RangeContainsPos

SpecRanges == InitRanges /\ [][NextRanges]_vars

\* The sequence s holds no element twice.
NoRepeat(s) == \A i, j \in 1..Len(s) : s[i] = s[j] => i = j

\* The ranges of s are in ascending order of (seq, start, end).
Ascending(s) ==
    \A i \in 1..(Len(s) - 1) :
        \/ StrLess(s[i].seq, s[i + 1].seq)
        \/ s[i].seq = s[i + 1].seq /\ s[i].start < s[i + 1].start
        \/ s[i].seq = s[i + 1].seq /\ s[i].start = s[i + 1].start
                                   /\ s[i].end <= s[i + 1].end

\* The elements of the sequence s from the k-th on.
ElementsFrom(s, k) == {s[i] : i \in k..Len(s)}

(***************************************************************************)
(* C15.  overlapping_ranges(S, q) yields at most one interval that starts  *)
(* strictly before q.start, followed in ascending order by every interval  *)
(* of S on q.seq whose start lies within q's bounds, and nothing else: no  *)
(* interval of another sequence and none more than once.  (Read in the     *)
(* widest way: every interval that starts in q.start .. q.end - 1 is       *)
(* there, and none that starts outside q.start .. q.end.)                  *)
(***************************************************************************)
C15_LeadThenStartsWithin ==
    fil_call.op = "overlapping_ranges" =>
        LET q == fil_call.arg.range
            out == fil_call.result.val
            Before(r) == r.seq = q.seq /\ r.start < q.start
            lead == IF Len(out) > 0 /\ Before(out[1]) THEN 1 ELSE 0
            rest == ElementsFrom(out, lead + 1)
        IN  /\ fil_call.result.ok
            /\ NoRepeat(out)
            /\ Ascending(out)
            /\ ElementsFrom(out, 1) \subseteq fil_ranges
            /\ \A r \in rest : r.seq = q.seq /\ q.start <= r.start /\ r.start <= q.end
            /\ \A r \in fil_ranges :
                  (r.seq = q.seq /\ q.start <= r.start /\ r.start < q.end) => r \in rest


\* r is not above q in the order (seq, start, end) of the set.
NotAbove(r, q) ==
    \/ StrLess(r.seq, q.seq)
    \/ r.seq = q.seq /\ r.start < q.start
    \/ r.seq = q.seq /\ r.start = q.start /\ r.end <= q.end

\* r lies from q up to the zero-width range at the end of q, in that order.
FromQueryToItsEnd(r, q) ==
    /\ r.seq = q.seq
    /\ r.start > q.start \/ (r.start = q.start /\ r.end >= q.end)
    /\ r.start < q.end \/ (r.start = q.end /\ r.end <= q.end)

(***************************************************************************)
(* C15 as the code has it.  When q.end is below q.start the call panics.   *)
(* Otherwise overlapping_ranges(S, q) yields first the greatest interval   *)
(* of S that is not above q in the order (seq, start, end), if there is    *)
(* one: it may be on a sequence before q.seq, may start at q.start, and is *)
(* q itself when q is in S; then, in ascending order and each once, the    *)
(* intervals of S on q.seq from q up to (q.end, q.end) in that order:      *)
(* those that start after q.start and before q.end, those that start at    *)
(* q.start and end at or after q.end, and those that start at q.end and    *)
(* end at or before it.  So q, when in S, comes twice, and of the          *)
(* intervals that start at q.start and end before q.end only the longest   *)
(* can come.                                                               *)
(***************************************************************************)
C15_GreatestNotAboveThenUpToEnd ==
    fil_call.op = "overlapping_ranges" =>
        LET q == fil_call.arg.range
            out == fil_call.result.val
            below == {r \in fil_ranges : NotAbove(r, q)}
            lead == IF below = {} THEN 0 ELSE 1
            rest == SubSeq(out, lead + 1, Len(out))
        IN  IF q.end < q.start THEN fil_call.result.panic
            ELSE /\ fil_call.result.ok
                 /\ Len(out) >= lead
                 /\ lead = 1 => /\ out[1] \in below
                                /\ \A r \in below : NotAbove(r, out[1])
                 /\ NoRepeat(rest)
                 /\ Ascending(rest)
                 /\ ElementsFrom(rest, 1) = {r \in fil_ranges : FromQueryToItsEnd(r, q)}

\* C15 witness: the query c[3,5) on the set {c[2,4), c[3,5)}: the query is in
\* the set and is yielded twice, c[2,4) is not yielded.
C15_Witness ==
    /\ fil_call.op = "overlapping_ranges"
    /\ fil_call.arg.range = Range(ChromC, 3, 5)
    /\ fil_ranges = {Range(ChromC, 2, 4), Range(ChromC, 3, 5)}
    /\ fil_call.result.ok
    /\ fil_call.result.val = <<Range(ChromC, 3, 5), Range(ChromC, 3, 5)>>


\* Some interval of S on chrom holds the position p.
SomeIntervalHolds(S, chrom, p) ==
    \E r \in S : r.seq = chrom /\ r.start <= p /\ p < r.end

(***************************************************************************)
(* C16.  For a range set whose intervals are pairwise non-overlapping,     *)
(* intervals of zero width allowed, and every (chrom, p),                  *)
(* range_contains_pos(S, chrom, p) is true iff some interval of S has      *)
(* seq = chrom and start <= p < end.                                       *)
(***************************************************************************)
C16_ContainsIffSomeIntervalHolds ==
    (fil_call.op = "range_contains_pos" /\ PairwiseNonOverlapping(fil_ranges)) =>
        /\ fil_call.result.ok
        /\ fil_call.result.val
               <=> SomeIntervalHolds(fil_ranges, fil_call.arg.chrom, fil_call.arg.position)

(***************************************************************************)
(* Properties of the drivers, under SpecDrv.                               *)
(***************************************************************************)
\* The token before the first '.' of seq.
GenomeToken(seq) ==
    IF \A i \in 1..Len(seq) : seq[i] # "." THEN seq
    ELSE SubSeq(seq, 1, (CHOOSE i \in 1..Len(seq) :
                            seq[i] = "." /\ \A j \in 1..(i - 1) : seq[j] # ".") - 1)

\* Some genome has more than one Aligned entry in the block.
SomeGenomeTwice(b) ==
    \E i, j \in 1..Len(b.entries) :
        /\ i # j
        /\ IsAligned(b.entries[i])
        /\ IsAligned(b.entries[j])
        /\ GenomeToken(b.entries[i].seq) = GenomeToken(b.entries[j].seq)

CommentWriters == {"output_dup_blocks", "output_merged_consensus_blocks", "filter"}

(***************************************************************************)
(* C18.  In output_dup_blocks, output_merged_consensus_blocks and filter:  *)
(* when the first line of the input that is not blank starts with '#', the *)
(* turn returns Comment with the line less its first '#' and adds the line *)
(* itself to the output, after what was written before; no other turn      *)
(* reads a Comment.  A line is what LinesRef yields: the characters before *)
(* its "\n" or "\r\n".                                                     *)
(***************************************************************************)
C18_CommentsPassThrough ==
    [][(driver.name \in CommentWriters /\ driver.status = "running") =>
          LET h == FirstNonBlank(input)
              line == LinesRefNext(input[h])
          IN  IF h <= Len(input) /\ line[1] = "#"
              THEN /\ drv_last'.item = ItemComment(Tail(line))
                   /\ drv_last'.used = h
                   /\ driver'.output = Append(driver.output, line)
              ELSE drv_last'.item.tag # "Comment"]_vars

\* C18 witness: filter has written a filtered block and then reads and writes
\* the comment that follows it.
C18_Witness ==
    /\ driver.name = "filter"
    /\ drv_last.item.tag = "Comment"
    /\ Len(driver.output) = 4
    /\ driver.output[1] = <<"a">>
    /\ driver.output[3] = <<>>
    /\ driver.output[4] = LComment

(***************************************************************************)
(* Properties of the calls of next_maf_item on one stream, under Spec.     *)
(***************************************************************************)
\* Every line of c is blank for next_maf_item: line.trim().is_empty().
AllBlank(c) == \A i \in 1..Len(c) : TrimIsEmpty(LinesRefNext(c[i]))

\* The first line of c that is not blank is there and starts with 'a'.
HeaderFound(c) ==
    /\ FirstNonBlank(c) <= Len(c)
    /\ LinesRefNext(c[FirstNonBlank(c)])[1] = "a"

\* What parse_block makes of the lines of c from its header on.
BlockOf(c) ==
    parse_block(LinesRefNext(c[FirstNonBlank(c)]),
                SubSeq(c, FirstNonBlank(c) + 1, Len(c))).res

\* The last call read a header and body lines that all parse, and the input
\* ended there, after a line that is not empty: no empty line ended the block.
CutOffBlock ==
    /\ result.tag # "None"
    /\ input = <<>>
    /\ HeaderFound(consumed)
    /\ LinesRefNext(consumed[Len(consumed)]) # <<>>
    /\ BlockOf(consumed).ok

\* C19 as stated: EOF is returned both when the input ends before any header
\* or comment line and when it ends in the middle of a block.
C19_EOFAlsoMidBlock ==
    /\ (result.tag # "None" /\ AllBlank(consumed)) => result = ItemErr(ErrEOF)
    /\ CutOffBlock => result = ItemErr(ErrEOF)

(***************************************************************************)
(* C19.  next_maf_item returns the EOF error exactly when the input is     *)
(* exhausted with nothing but blank lines read, before any header or       *)
(* comment line.  When the input ends in the middle of a block, after the  *)
(* header or a body line and with no empty line, the call returns the      *)
(* Block made of the lines read, not an error.                             *)
(***************************************************************************)
C19_EOFOnlyBeforeAnyItem ==
    /\ (result.tag # "None" /\ AllBlank(consumed)) =>
          (result = ItemErr(ErrEOF) /\ input = <<>>)
    /\ result = ItemErr(ErrEOF) => (AllBlank(consumed) /\ input = <<>>)
    /\ CutOffBlock => result = ItemBlock(BlockOf(consumed).val)

\* C19 witness: the input ended after two body lines; the call returned the
\* block of two entries.
C19_Witness ==
    /\ CutOffBlock
    /\ result.tag = "Block"
    /\ Len(result.block.entries) = 2
    /\ consumed[Len(consumed)] = LSB

(***************************************************************************)
(* C20.  Each call of next_maf_item reads a prefix of the stream and       *)
(* leaves the rest, in order, to the next call.  A call that returns a     *)
(* Comment read up to the first line that is not blank, which is that      *)
(* comment.  A call that returns a Block read the blank lines before the   *)
(* header, the header, and the body lines up to and including the first    *)
(* empty line, or up to the end of the input if there is none, and no line *)
(* after it; the block is made of these lines.  When only blank lines      *)
(* remain the call returns EOF and leaves nothing.                         *)
(***************************************************************************)
C20_CallsReadParagraphs ==
    [][rendered' = None =>
          LET h == FirstNonBlank(input)
              n == Len(consumed')
          IN  /\ consumed' \o input' = input
              /\ result'.tag = "Comment" =>
                    /\ n = h
                    /\ result'.text = Tail(LinesRefNext(input[h]))
              /\ result'.tag = "Block" =>
                    /\ HeaderFound(input)
                    /\ n >= h
                    /\ \A i \in (h + 1)..(n - 1) : LinesRefNext(input[i]) # <<>>
                    /\ \/ n > h /\ LinesRefNext(input[n]) = <<>>
                       \/ input' = <<>>
                    /\ result'.block = BlockOf(consumed').val
              /\ AllBlank(input) =>
                    (result' = ItemErr(ErrEOF) /\ input' = <<>>)]_vars

\* C20 witness: a call returned a block of one entry, read its empty line and
\* left the comment line that follows to the next call.
C20_Witness ==
    /\ result.tag = "Block"
    /\ Len(result.block.entries) = 1
    /\ LinesRefNext(consumed[Len(consumed)]) = <<>>
    /\ input = <<LComment>>

\* The last call read a block's header and stopped at a body line whose first
\* token is q.
StoppedAtQLine ==
    /\ result.tag # "None"
    /\ HeaderFound(consumed)
    /\ FirstNonBlank(consumed) < Len(consumed)
    /\ LET fields == split_whitespace(LinesRefNext(consumed[Len(consumed)]))
       IN  Len(fields) > 0 /\ fields[1] = <<"q">>

(***************************************************************************)
(* C21.  A body line whose first token is q is rejected with an error that *)
(* is not of the variant BadLineType, the variant returned for any unknown *)
(* first token.                                                            *)
(***************************************************************************)
C21_QLineErrorIsDistinct ==
    StoppedAtQLine => (result.tag = "Err" /\ result.err.kind # "BadLineType")

(***************************************************************************)
(* update_from_s_line on one body line: the stream holds one line whose    *)
(* first token is s, fil_block the entries the block has so far.  The line *)
(* has the six fields of an s line, each well-formed or not, or lacks one  *)
(* of them.                                                                *)
(***************************************************************************)
SeqToks == {SeqA}
NumberToks == {<<"1">>, <<"x">>}
StrandToks == {<<"+">>, <<"-">>, <<"x">>}
AlignmentToks == {<<"A", "C">>}

SixFields ==
    {<<seq, start, len, strand, size, al>> :
        seq \in SeqToks, start \in NumberToks, len \in NumberToks,
        strand \in StrandToks, size \in NumberToks, al \in AlignmentToks}

\* The sequence s without its k-th element.
Without(s, k) == SubSeq(s, 1, k - 1) \o SubSeq(s, k + 1, Len(s))

SLineFields ==
    SixFields \cup {Without(f, k) : f \in SixFields, k \in 1..6}

\* Entries pushed by the lines before.
SoFarPool ==
    { AlignedEntry(SeqB, 3, 1, "Positive", 5, <<"G">>, None),
      UnalignedEntry(SeqB, 0, 1, "Negative", 5, "Contiguous") }

InitSLine ==
    /\ input \in {<<Line(<< <<"s">> >> \o f)>> : f \in SLineFields}
    /\ consumed = <<>>
    /\ result = ItemNone
    /\ rendered = None
    /\ TallyIdle
    /\ MergeIdle
    /\ CovIdle
    /\ DrvIdle
    /\ fil_block \in {MAFBlock(<<>>, es) : es \in SeqsUpTo(SoFarPool, MaxSoFar)}
    /\ fil_ranges = {}
    /\ fil_call = NoFilterCall

\* let mut fields = line.split_whitespace().collect(); "s" => update_from_s_line
UpdateFromSLine ==
    /\ fil_call.op = "none"
    /\ fil_call' = [op |-> "update_from_s_line",
                    arg |-> [fields |-> split_whitespace(LinesRefNext(input[1])),
                             block_entries |-> fil_block.entries],
                    result |-> update_from_s_line(
                                   split_whitespace(LinesRefNext(input[1])),
                                   fil_block.entries)]
    /\ UNCHANGED <<fil_block, fil_ranges>>
    /\ UNCHANGED <<parser_vars, tally_vars, merge_vars, cov_vars, drv_vars>>

NextSLine == UpdateFromSLine

SpecSLine == InitSLine /\ [][NextSLine]_vars

\* The fields after the 's' token.
AfterS(fields) == Tail(fields)

\* The six fields f of an s line are well-formed.
WellFormedS(f) ==
    /\ Len(f) = 6
    /\ IsNumber(f[2]) /\ IsNumber(f[3]) /\ IsStrandTok(f[4]) /\ IsNumber(f[5])

(***************************************************************************)
(* C22.  An s line with fewer than six fields after the 's' token, or with *)
(* a start, aligned_length or sequence_size that is no number, or with a   *)
(* strand other than '+' and '-', returns an error and appends no entry;   *)
(* an s line with six well-formed fields appends one Aligned entry that    *)
(* holds the six values, with no context and no qualities.                 *)
(***************************************************************************)
C22_SLineAcceptedIffWellFormed ==
    fil_call.op = "update_from_s_line" =>
        LET f == AfterS(fil_call.arg.fields)
            r == fil_call.result
        IN  IF WellFormedS(f)
            THEN /\ r.ok
                 /\ r.val = Append(fil_call.arg.block_entries,
                                   AlignedEntry(f[1], DecVal(f[2]), DecVal(f[3]),
                                       IF f[4] = <<"+">> THEN "Positive" ELSE "Negative",
                                       DecVal(f[5]), f[6], None))
            ELSE ~r.ok /\ ~r.panic

(***************************************************************************)
(* The point query of the coverage, MAFCoverage::in_range, on the range    *)
(* sets and points of the lookups above.                                   *)
(***************************************************************************)
\* self.in_range(chrom, position) with self.ranges = Some(set); position + 1
\* panics at the largest u64 in a build with overflow checks.
InRange ==
    /\ fil_call.op = "none"
    /\ \E chrom \in QueryChroms, position \in QueryPositions :
          fil_call' = [op |-> "in_range",
                       arg |-> [chrom |-> chrom, position |-> position],
                       result |-> IF build_overflow_checks /\ position + 1 > U64Max
                                  THEN Panic(<<"attempt to add with overflow">>)
                                  ELSE Ok(in_range(Some(fil_ranges), chrom, position))]
    /\ UNCHANGED <<fil_block, fil_ranges>>
    /\ UNCHANGED <<parser_vars, tally_vars, merge_vars, cov_vars, drv_vars>>

NextPoint == InRange \/ RangeContainsPos

SpecPoint == InitRanges /\ [][NextPoint]_vars

\* The intervals of set on chrom that have the greatest start not above position.
GreatestStartNotAbove(set, chrom, position) ==
    LET at == {r \in set : r.seq = chrom /\ r.start <= position}
    IN  {r \in at : \A q \in at : q.start <= r.start}

(***************************************************************************)
(* C23.  When several intervals of the set share the seq and the greatest  *)
(* start not above the queried position, in_range tests the one with the   *)
(* largest end: it returns true exactly when one of the intervals with     *)
(* that start contains the position.                                       *)
(***************************************************************************)
C23_TestsTheFurthestEnd ==
    (fil_call.op = "in_range" /\ fil_call.result.ok) =>
        LET chrom == fil_call.arg.chrom
            position == fil_call.arg.position
            same == GreatestStartNotAbove(fil_ranges, chrom, position)
        IN  Cardinality(same) > 1 =>
                fil_call.result.val = (\E r \in same : position < r.end)


(***************************************************************************)
(* C24.  For every set of ranges and every (chrom, position), in_range     *)
(* returns what range_contains_pos returns for the same set and point.     *)
(***************************************************************************)
C24_PointQueriesAgree ==
    fil_call.op = "in_range" =>
        fil_call.result = range_contains_pos(fil_ranges, fil_call.arg.chrom,
                                             fil_call.arg.position,
                                             build_overflow_checks)


(***************************************************************************)
(* Range::precedes, Range::overlaps and Range::succeeds of one range of    *)
(* the set against one point, as the scan of get_filtered_columns calls    *)
(* them.                                                                   *)
(***************************************************************************)
RangeAgainstPoint ==
    /\ fil_call.op = "none"
    /\ \E range \in fil_ranges, chrom \in QueryChroms, position \in QueryPositions :
          fil_call' = [op |-> "range_against_point",
                       arg |-> [range |-> range, chrom |-> chrom,
                                position |-> position],
                       result |-> Ok([precedes |-> precedes(range, chrom, position),
                                      overlaps |-> overlaps(range, chrom, position),
                                      succeeds |-> succeeds(range, chrom, position)])]
    /\ UNCHANGED <<fil_block, fil_ranges>>
    /\ UNCHANGED <<parser_vars, tally_vars, merge_vars, cov_vars, drv_vars>>

NextOrder == RangeAgainstPoint

SpecOrder == InitRanges /\ [][NextOrder]_vars

\* The number of the three answers that are true.
AnswersTrue(v) ==
    (IF v.precedes THEN 1 ELSE 0) + (IF v.overlaps THEN 1 ELSE 0)
        + (IF v.succeeds THEN 1 ELSE 0)

(***************************************************************************)
(* C25.  For every Range with start < end and every (chrom, position),     *)
(* exactly one of precedes, overlaps and succeeds is true.                 *)
(***************************************************************************)
C25_ExactlyOneOfThree ==
    (/\ fil_call.op = "range_against_point"
     /\ fil_call.arg.range.start < fil_call.arg.range.end) =>
        AnswersTrue(fil_call.result.val) = 1


(***************************************************************************)
(* split_maf on whole blocks (split.rs:59-70): the stream holds up to      *)
(* MaxSplitBlocks block texts, each ended by its empty line; `consumed`    *)
(* keeps the lines the loop has read.                                      *)
(***************************************************************************)
LSC3 == Line(<< <<"s">>, SeqA, <<"3">>, <<"1">>, <<"+">>, <<"9">>, <<"G">> >>)

SplitBlockTexts ==
    { <<LHeader, LSA, LEmpty>>,
      <<LHeader, LSA, LSB, LEmpty>>,
      <<LHeader, LSC3, LEmpty>>,
      <<LHeader, LSB, LEmpty>>,
      <<LHeader, LEmpty>> }

RECURSIVE Concat(_)
Concat(texts) ==
    IF Len(texts) = 0 THEN <<>> ELSE Head(texts) \o Concat(Tail(texts))

InitSplit ==
    /\ FilIdle
    /\ input \in {Concat(ts) : ts \in SeqsUpTo(SplitBlockTexts, MaxSplitBlocks)}
    /\ consumed = <<>>
    /\ result = ItemNone
    /\ rendered = None
    /\ TallyIdle
    /\ MergeIdle
    /\ CovIdle
    /\ driver = Driver("split_maf", MAFSplitNew(SplitMaxLength))
    /\ drv_last = NoItem

\* One turn of `while let Ok(item) = next_maf_item(input)` in split_maf, and
\* the drop of the splitter when the loop ends.
SplitTurn ==
    /\ driver.name = "split_maf"
    /\ driver.status = "running"
    /\ drv_last' = next_maf_item(input)
    /\ input' = SubSeq(input, drv_last'.used + 1, Len(input))
    /\ consumed' = consumed \o SubSeq(input, 1, drv_last'.used)
    /\ driver' = split_maf(driver, drv_last'.item, build_overflow_checks)
    /\ UNCHANGED <<result, rendered>>
    /\ UNCHANGED <<tally_vars, merge_vars, cov_vars, fil_vars>>

NextSplit == SplitTurn

SpecSplit == InitSplit /\ [][NextSplit]_vars

\* The blocks of the lines read so far, in order.
RECURSIVE BlocksOf(_)
BlocksOf(lines) ==
    LET r == next_maf_item(lines)
        rest == SubSeq(lines, r.used + 1, Len(lines))
    IN  IF r.item.tag = "Block" THEN <<r.item.block>> \o BlocksOf(rest)
        ELSE IF r.item.tag = "Comment" THEN BlocksOf(rest)
        ELSE <<>>

\* The reference entry of a block: its first Aligned entry, if any.
ReferenceEntry(b) ==
    IF SelectSeq(b.entries, IsAligned) = <<>> THEN None
    ELSE Some(SelectSeq(b.entries, IsAligned)[1])

\* The blocks bs divided among files by the rule of C26: segs is the sequence
\* of the files started so far, each the sequence of its blocks; the last one
\* is the current file, of chromosome cur_chrom and accumulated length cur_len.
RECURSIVE FilesByRule(_, _, _, _)
FilesByRule(bs, segs, cur_chrom, cur_len) ==
    IF Len(bs) = 0 THEN segs
    ELSE LET b == Head(bs)
             ref == ReferenceEntry(b)
         IN  IF ref = None
             THEN FilesByRule(Tail(bs),
                              IF Len(segs) = 0 THEN <<<<b>>>>
                              ELSE [segs EXCEPT ![Len(segs)] = Append(@, b)],
                              cur_chrom, cur_len)
             ELSE IF \/ Len(segs) = 0
                     \/ chrom_of(ref[1].seq) # cur_chrom
                     \/ cur_len + ref[1].aligned_length > SplitMaxLength
             THEN FilesByRule(Tail(bs), Append(segs, <<b>>),
                              chrom_of(ref[1].seq), ref[1].aligned_length)
             ELSE FilesByRule(Tail(bs),
                              [segs EXCEPT ![Len(segs)] = Append(@, b)],
                              cur_chrom, cur_len + ref[1].aligned_length)

\* split_maf has read the whole input and returned.
SplitDone ==
    /\ driver.name = "split_maf"
    /\ driver.status = "returned"
    /\ drv_last.item = ItemErr(ErrEOF)

(***************************************************************************)
(* C26.  MAFSplit starts a new output file exactly when a block with a     *)
(* reference entry is the first one seen, when its reference chromosome    *)
(* differs from the current file's, or when the current file's accumulated *)
(* reference aligned_length plus the block's would exceed max_length, and  *)
(* appends the block to the current file otherwise: when split_maf has     *)
(* returned, there are as many files as the rule starts, and each holds    *)
(* the version line and then its blocks in input order (so blocks of one   *)
(* reference chromosome, of accumulated length at most max_length unless   *)
(* the file holds a single block).                                         *)
(***************************************************************************)
C26_FilesFollowTheRule ==
    SplitDone =>
        LET segs == FilesByRule(BlocksOf(consumed), <<>>, <<>>, 0)
            files == driver.state.files
        IN  /\ Cardinality(DOMAIN files) = Len(segs)
            /\ \A k \in 1..Len(segs) : \E n \in DOMAIN files :
                  files[n] = TextOf(<<MafVersionLine>> \o DisplayBlocks(segs[k]))


\* Every duplicate of dups has the gap character in column i.
AllGapColumn(dups, i) ==
    \A k \in 1..Len(dups) :
        i <= Len(dups[k].alignment) /\ dups[k].alignment[i] = "-"

(***************************************************************************)
(* C27.  Under SpecMerge, in every mode: a column in which every duplicate *)
(* of a genome has '-' is '-' in the merged entry of the genome, and the   *)
(* merged entry's aligned_length is the number of non-gap characters of    *)
(* its alignment whenever that held for the duplicate it was copied from,  *)
(* the first one.                                                          *)
(***************************************************************************)
C27_MergedEntryKeepsGaps ==
    (merge_out # None /\ merge_out[1].ok) =>
        \A g \in DupGenomes :
            LET dups == EntriesOf(merge_block.entries, g)
                m == EntriesOf(merge_out[1].val.entries, g)[1]
            IN  /\ \A i \in 1..Len(m.alignment) :
                      AllGapColumn(dups, i) => m.alignment[i] = "-"
                /\ dups[1].aligned_length = NonGapCount(dups[1].alignment) =>
                      m.aligned_length = NonGapCount(m.alignment)


\* The lines that the step adds to the output of the driver.
Added == SubSeq(driver'.output, Len(driver.output) + 1, Len(driver'.output))

(***************************************************************************)
(* C28.  Under SpecDrv: each turn of output_merged_consensus_blocks that   *)
(* reads a block goes on running and adds exactly one block to the output, *)
(* after what was written before; a block without Aligned entry is added   *)
(* with its metadata and entries unchanged.                                *)
(***************************************************************************)
C28_OneBlockWrittenPerBlockRead ==
    [][(driver.name = "output_merged_consensus_blocks"
            /\ drv_last'.item.tag = "Block") =>
          /\ driver'.status = "running"
          /\ Len(driver'.output) > Len(driver.output)
          /\ SubSeq(driver'.output, 1, Len(driver.output)) = driver.output
          /\ Cardinality({i \in 1..Len(Added) :
                             Len(Added[i]) > 0 /\ Added[i][1] = "a"}) = 1
          /\ aligned_entries(drv_last'.item.block) = <<>> =>
                Added = DisplayBlock(drv_last'.item.block) \o << <<>> >>]_vars


(***************************************************************************)
(* C29.  Under SpecFilterEntry: for an Aligned entry whose aligned_length  *)
(* is its number of non-gap characters and a run inside its alignment, the *)
(* entry that filter_entry_columns returns covers a sub-interval of the    *)
(* original (old start <= new start, new start + new aligned_length <=     *)
(* old start + old aligned_length) and its alignment has the length of the *)
(* run, as that of every entry of the filtered sub-block.                  *)
(***************************************************************************)
C29_FilteredEntryIsSubInterval ==
    (/\ fil_call.op = "filter_entry_columns"
     /\ fil_call.arg.run.start + fil_call.arg.run.length
            <= Len(fil_call.arg.entry.alignment)
     /\ fil_call.arg.entry.aligned_length
            = NonGapCount(fil_call.arg.entry.alignment)) =>
        LET e == fil_call.arg.entry
            out == fil_call.result.val
        IN  /\ fil_call.result.ok
            /\ e.start <= out.start
            /\ out.start + out.aligned_length <= e.start + e.aligned_length
            /\ Len(out.alignment) = fil_call.arg.run.length


(***************************************************************************)
(* C30.  Under SpecMerge: the block written for a block and a mode is the  *)
(* same whatever the order in which the hash map of the duplicated genomes *)
(* is iterated, also with two or more duplicated genomes; and the merged   *)
(* entry of a genome has the seq, start, aligned_length, strand,           *)
(* sequence_size and context of the genome's first duplicate in the block. *)
(***************************************************************************)
C30_MergeIsDeterministic ==
    merge_out # None =>
        /\ \A order \in IterationOrders(DupGenomes) :
              MergedBlock(merge_block, order, merge_mode) = merge_out[1]
        /\ merge_out[1].ok =>
              \A g \in DupGenomes :
                  LET first == EntriesOf(merge_block.entries, g)[1]
                      m == EntriesOf(merge_out[1].val.entries, g)[1]
                  IN  /\ m.seq = first.seq
                      /\ m.start = first.start
                      /\ m.aligned_length = first.aligned_length
                      /\ m.strand = first.strand
                      /\ m.sequence_size = first.sequence_size
                      /\ m.context = first.context

=============================================================================
